---- MODULE Spec2Model ----
(***************************************************************************)
(* A model of dicompare: acquisition/run labelling of a record table,      *)
(* field scoring and session matching, schema generation and loading, and  *)
(* the JSON-reference compliance check.                                    *)
(*                                                                         *)
(* Python values are tagged records of one shape, so that values of        *)
(* different Python types can be compared: t is the type tag, n the        *)
(* numeric payload, s the string payload (a sequence of one-character      *)
(* strings) and l the payload of a list or tuple (a sequence of scalars).  *)
(***************************************************************************)
EXTENDS Integers, Sequences, FiniteSets, TLC

VARIABLES
    pc,                 \* control point of the operation under way
    session_df,         \* the record table: [cols: set of names, rows: sequence]
    out_df,             \* the table an operation returns
    raised,             \* TRUE when the operation ended by raising
    score_args,         \* arguments of the scoring function under way
    score,              \* its result
    in_session,         \* input session (dict form) of map_session
    ref_session,        \* reference session / schema
    mapping,            \* map_session's result, or the session_map of a check
    compliance_summary, \* the compliance report under construction
    cursor,             \* loop position of the compliance check
    schema,             \* a schema tree in memory
    wire,               \* the schema as written in the JSON wire format
    ref_models,         \* the validation models of a module of rules
    raise_errors,       \* the raise_errors argument of a compliance check
    validation,         \* what BaseValidationModel.validate returned
    caller_before,      \* the caller's table as it was before the call
    reverse_mapping,    \* interactive_mapping: input key -> reference key
    selected_ref_idx,   \* run_curses: the selected reference row
    selected_input_idx, \* run_curses: <<>> for None, else <<index>>
    initial_mapping     \* the initial_mapping argument of interactive_mapping

vars == <<pc, session_df, out_df, raised, score_args, score, in_session,
          ref_session, mapping, compliance_summary, cursor, schema, wire,
          ref_models, raise_errors, validation, caller_before,
                   reverse_mapping, selected_ref_idx, selected_input_idx,
                   initial_mapping>>

\* the interactive remapping loop is not running
MenuIdle ==
    /\ reverse_mapping = <<>>
    /\ selected_ref_idx = 0
    /\ selected_input_idx = <<>>
    /\ initial_mapping = <<>>

----------------------------------------------------------------------------
(* Python values *)

NoSeq == <<>>

\* None
PyNone == [t |-> "none", n |-> 0, s |-> NoSeq, l |-> NoSeq]
\* float('nan'), the missing-value marker of a table cell
NaN == [t |-> "nan", n |-> 0, s |-> NoSeq, l |-> NoSeq]
PyInt(k) == [t |-> "int", n |-> k, s |-> NoSeq, l |-> NoSeq]
\* a float with an integral value
PyFloat(k) == [t |-> "float", n |-> k, s |-> NoSeq, l |-> NoSeq]
\* a float given in thousandths: n is its floor and l holds the thousandths
\* beyond it, when there are any
PyFloatMilli(m) ==
    [t |-> "float", n |-> m \div 1000, s |-> NoSeq,
     l |-> IF m % 1000 = 0 THEN NoSeq ELSE <<m % 1000>>]
PyBool(b) == [t |-> "bool", n |-> IF b THEN 1 ELSE 0, s |-> NoSeq, l |-> NoSeq]
PyStr(cs) == [t |-> "str", n |-> 0, s |-> cs, l |-> NoSeq]
PyList(xs) == [t |-> "list", n |-> 0, s |-> NoSeq, l |-> xs]
PyTuple(xs) == [t |-> "tuple", n |-> 0, s |-> NoSeq, l |-> xs]

IsNull(v) == v.t \in {"none", "nan"}
\* isinstance(v, (int, float)): bool is a subclass of int, nan is a float
IsNumber(v) == v.t \in {"int", "float", "bool", "nan"}
IsSeqValue(v) == v.t \in {"list", "tuple"}

\* the value of a number, in thousandths
Milli(v) == 1000 * v.n + (IF v.t = "float" /\ v.l # NoSeq THEN v.l[1] ELSE 0)

\* Python's == on values: numbers compare by value across int, float and
\* bool, nan equals nothing, a list never equals a tuple.
RECURSIVE PyEq(_, _)
PyEq(a, b) ==
    IF a.t = "nan" \/ b.t = "nan" THEN FALSE
    ELSE IF IsNumber(a) /\ IsNumber(b) THEN Milli(a) = Milli(b)
    ELSE IF a.t # b.t THEN FALSE
    ELSE IF a.t = "str" THEN a.s = b.s
    ELSE IF IsSeqValue(a) THEN
        /\ Len(a.l) = Len(b.l)
        /\ \A i \in 1..Len(a.l) : PyEq(a.l[i], b.l[i])
    ELSE TRUE

----------------------------------------------------------------------------
(* Strings: sequences of one-character strings *)

UpperChars == <<"A","B","C","D","E","F","G","H","I","J","K","L","M",
                "N","O","P","Q","R","S","T","U","V","W","X","Y","Z">>
LowerChars == <<"a","b","c","d","e","f","g","h","i","j","k","l","m",
                "n","o","p","q","r","s","t","u","v","w","x","y","z">>

\* str.lower() on one character
Lower(c) ==
    IF \E i \in 1..Len(UpperChars) : UpperChars[i] = c
    THEN LowerChars[CHOOSE i \in 1..Len(UpperChars) : UpperChars[i] = c]
    ELSE c

\* the characters clean_string removes (forbidden_chars); the backquote,
\* which no name of the model contains, is left out as a TLA+ string cannot
\* hold it
ForbiddenChars == {"~","!","@","#","$","%","^","&","*","(",")","_","+",
                   "-","=","[","]","\\","{","}","|",";","'",":",",",".",
                   "<",">","?","/"," "}

RECURSIVE clean_string(_)
clean_string(s) ==
    IF s = <<>> THEN <<>>
    ELSE IF Head(s) \in ForbiddenChars THEN clean_string(Tail(s))
    ELSE <<Lower(Head(s))>> \o clean_string(Tail(s))

Digits == <<"0","1","2","3","4","5","6","7","8","9">>

\* str(k) of a non-negative int
RECURSIVE StrNat(_)
StrNat(k) ==
    IF k < 10 THEN <<Digits[k + 1]>>
    ELSE StrNat(k \div 10) \o <<Digits[(k % 10) + 1]>>

StrInt(k) == IF k < 0 THEN <<"-">> \o StrNat(0 - k) ELSE StrNat(k)

\* the decimals of m thousandths, 0 < m < 1000, without trailing zeros
Decimals(m) ==
    IF m % 100 = 0 THEN <<Digits[(m \div 100) + 1]>>
    ELSE IF m % 10 = 0
         THEN <<Digits[(m \div 100) + 1], Digits[((m \div 10) % 10) + 1]>>
    ELSE <<Digits[(m \div 100) + 1], Digits[((m \div 10) % 10) + 1],
           Digits[(m % 10) + 1]>>

\* str(v) of a scalar value (a float with thousandths is not negative)
StrOf(v) ==
    CASE v.t = "str" -> v.s
      [] v.t = "int" -> StrInt(v.n)
      [] v.t = "float" -> IF v.l = NoSeq THEN StrInt(v.n) \o <<".", "0">>
                          ELSE StrInt(v.n) \o <<".">> \o Decimals(v.l[1])
      [] v.t = "bool" -> IF v.n = 1 THEN <<"T","r","u","e">>
                                    ELSE <<"F","a","l","s","e">>
      [] v.t = "nan" -> <<"n","a","n">>
      [] OTHER -> <<"N","o","n","e">>

\* the characters of the model in ASCII order
AsciiOrder == <<" ", "$", "(", ")", "*", "-", ".",
                "0","1","2","3","4","5","6","7","8","9", "?",
                "A","B","C","D","E","F","G","H","I","J","K","L","M",
                "N","O","P","Q","R","S","T","U","V","W","X","Y","Z", "_",
                "a","b","c","d","e","f","g","h","i","j","k","l","m",
                "n","o","p","q","r","s","t","u","v","w","x","y","z">>

Code(c) == CHOOSE i \in 1..Len(AsciiOrder) : AsciiOrder[i] = c

\* a < b on strings
RECURSIVE StrLess(_, _)
StrLess(a, b) ==
    IF b = <<>> THEN FALSE
    ELSE IF a = <<>> THEN TRUE
    ELSE IF Head(a) = Head(b) THEN StrLess(Tail(a), Tail(b))
    ELSE Code(Head(a)) < Code(Head(b))

\* a < b on the scalar values of one column
ValLess(a, b) ==
    IF a.t = "str" /\ b.t = "str" THEN StrLess(a.s, b.s)
    ELSE IF IsNumber(a) /\ IsNumber(b) /\ a.t # "nan" /\ b.t # "nan"
         THEN Milli(a) < Milli(b)
    ELSE FALSE

\* a < b on key tuples (the order in which groupby yields its groups)
RECURSIVE KeyLess(_, _)
KeyLess(a, b) ==
    IF a = <<>> \/ b = <<>> THEN FALSE
    ELSE IF Head(a) = Head(b) THEN KeyLess(Tail(a), Tail(b))
    ELSE ValLess(Head(a), Head(b))

\* position of k in the sorted enumeration of a set of keys
RankIn(k, keys) == 1 + Cardinality({x \in keys : KeyLess(x, k)})

----------------------------------------------------------------------------
(* Tables (pandas DataFrames): cols is the set of column names, rows the   *)
(* sequence of rows, each a function from cols to values                   *)

NRows(df) == Len(df.rows)
Idx(df) == 1..Len(df.rows)

\* df[name] = values: add or overwrite a column
SetColumn(df, name, values) ==
    [cols |-> df.cols \cup {name},
     rows |-> [i \in Idx(df) |->
                 [c \in df.cols \cup {name} |->
                    IF c = name THEN values[i] ELSE df.rows[i][c]]]]

\* df.drop(columns = names)
DropColumns(df, names) ==
    [cols |-> df.cols \ names,
     rows |-> [i \in Idx(df) |-> [c \in df.cols \ names |-> df.rows[i][c]]]]

\* the key of row i under a list of grouping fields
RowKey(df, i, fields) == [j \in 1..Len(fields) |-> df.rows[i][fields[j]]]

\* groupby drops the rows that have a null in a grouping field (dropna=True)
HasNullKey(k) == \E j \in 1..Len(k) : IsNull(k[j])

\* [f for f in fields if f in df.columns]
RECURSIVE FieldsPresent(_, _)
FieldsPresent(fields, cols) ==
    IF fields = <<>> THEN <<>>
    ELSE IF Head(fields) \in cols
         THEN <<Head(fields)>> \o FieldsPresent(Tail(fields), cols)
    ELSE FieldsPresent(Tail(fields), cols)

Unknown == <<"U","n","k","n","o","w","n">>

make_hashable(v) == IF v.t = "list" THEN PyTuple(v.l) ELSE v

----------------------------------------------------------------------------
(* AcquisitionGrouper: dicompare/acquisition.py *)

DEFAULT_SETTINGS_FIELDS == <<"RepetitionTime", "InversionTime">>
DEFAULT_ACQUISITION_FIELDS == <<"ProtocolName">>
DEFAULT_RUN_GROUP_FIELDS == <<"PatientName", "PatientID", "ProtocolName", "StudyDate">>

\* ProtocolName falls back to SeriesDescription, then to "Unknown"; nulls
\* become "Unknown" and every value is converted with str
validate_and_setup_fields(df) ==
    LET proto(i) ==
            IF "ProtocolName" \in df.cols THEN df.rows[i]["ProtocolName"]
            ELSE IF "SeriesDescription" \in df.cols
                 THEN df.rows[i]["SeriesDescription"]
            ELSE PyStr(Unknown)
        filled(i) == IF IsNull(proto(i)) THEN PyStr(Unknown)
                     ELSE PyStr(StrOf(proto(i)))
    IN  SetColumn(df, "ProtocolName", [i \in Idx(df) |-> filled(i)])

\* "-".join(str(val) if pd.notnull(val) else "NA" for val in row)
RECURSIVE clean_acquisition_values(_)
clean_acquisition_values(vals) ==
    IF vals = <<>> THEN <<>>
    ELSE LET one == IF IsNull(Head(vals)) THEN <<"N", "A">> ELSE StrOf(Head(vals))
         IN  IF Len(vals) = 1 THEN one
             ELSE one \o <<"-">> \o clean_acquisition_values(Tail(vals))

BaseAcquisition(df, i, acquisition_fields) ==
    <<"a", "c", "q", "-">>
        \o clean_string(clean_acquisition_values(RowKey(df, i, acquisition_fields)))

\* the fields a protocol group is split by: the reference fields that are
\* columns, and CoilType when it is a column
grouping_fields(df, reference_fields) ==
    FieldsPresent(reference_fields, df.cols)
        \o (IF "CoilType" \in df.cols THEN <<"CoilType">> ELSE <<>>)

\* rows of the protocol group of row i
ProtocolGroup(df, i) ==
    {j \in Idx(df) : df.rows[j]["ProtocolName"] = df.rows[i]["ProtocolName"]}

\* the keys of list(protocol_group.groupby(grouping_fields))
unique_combinations(df, i, gf) ==
    {RowKey(df, j, gf) : j \in {x \in ProtocolGroup(df, i) :
                                   ~HasNullKey(RowKey(df, x, gf))}}

FirstOf(rows) == CHOOSE j \in rows : \A x \in rows : j <= x

\* the same with the counter given in the order the combinations are first
\* met among the rows of the protocol group
AcquisitionSignatureFirstSeen(df, i, acquisition_fields, reference_fields) ==
    LET gf == grouping_fields(df, reference_fields)
        key == RowKey(df, i, gf)
        combos == unique_combinations(df, i, gf)
        param_group == {j \in ProtocolGroup(df, i) : RowKey(df, j, gf) = key}
        base_acq == BaseAcquisition(df, FirstOf(param_group), acquisition_fields)
        seen == {RowKey(df, j, gf) :
                    j \in {x \in ProtocolGroup(df, i) :
                              /\ x < FirstOf(param_group)
                              /\ ~HasNullKey(RowKey(df, x, gf))}}
    IN  IF gf = <<>>
        THEN PyStr(BaseAcquisition(df, FirstOf(ProtocolGroup(df, i)),
                                   acquisition_fields))
        ELSE IF HasNullKey(key) THEN NaN
        ELSE IF Cardinality(combos) > 1
             THEN PyStr(base_acq \o <<"-">> \o StrNat(1 + Cardinality(seen)))
        ELSE PyStr(base_acq)

\* the signature written for row i, or NaN when no group holds the row
AcquisitionSignature(df, i, acquisition_fields, reference_fields) ==
    LET gf == grouping_fields(df, reference_fields)
        key == RowKey(df, i, gf)
        combos == unique_combinations(df, i, gf)
        param_group == {j \in ProtocolGroup(df, i) : RowKey(df, j, gf) = key}
        base_acq == BaseAcquisition(df, FirstOf(param_group), acquisition_fields)
    IN  IF gf = <<>>
        THEN PyStr(BaseAcquisition(df, FirstOf(ProtocolGroup(df, i)),
                                   acquisition_fields))
        ELSE IF HasNullKey(key) THEN NaN
        ELSE IF Cardinality(combos) > 1
             THEN PyStr(base_acq \o <<"-">> \o StrNat(RankIn(key, combos)))
        ELSE PyStr(base_acq)

\* the table with BaseAcquisition and AcquisitionSignature; the signature
\* column exists only when some row was written
build_acquisition_signatures(df0, acquisition_fields, reference_fields) ==
    LET df == [df0 EXCEPT !.rows =
                   [i \in Idx(df0) |-> [c \in df0.cols |-> make_hashable(@[i][c])]]]
        sig == [i \in Idx(df) |->
                  AcquisitionSignature(df, i, acquisition_fields, reference_fields)]
        withBase == SetColumn(df, "BaseAcquisition",
                        [i \in Idx(df) |-> PyStr(BaseAcquisition(df, i, acquisition_fields))])
    IN  IF \A i \in Idx(df) : sig[i] = NaN THEN withBase
        ELSE SetColumn(withBase, "AcquisitionSignature", sig)

\* SeriesTime when it is a column, else SeriesInstanceUID
get_series_differentiator(df) ==
    IF "SeriesTime" \in df.cols THEN "SeriesTime" ELSE "SeriesInstanceUID"

\* the rows one (run key, signature, series description) cell holds: the
\* nested groupby calls drop the rows with a null in any of the three
RunCellRows(df, run_keys) ==
    {i \in Idx(df) : /\ ~HasNullKey(RowKey(df, i, run_keys))
                     /\ ~IsNull(df.rows[i]["AcquisitionSignature"])
                     /\ ~IsNull(df.rows[i]["SeriesDescription"])}

RunCellOf(df, i, run_keys) ==
    RowKey(df, i, run_keys \o <<"AcquisitionSignature", "SeriesDescription">>)

\* series_group[series_differentiator].unique()
CellTimes(df, cell, run_keys, diff) ==
    {df.rows[j][diff] : j \in {x \in RunCellRows(df, run_keys) :
                                  RunCellOf(df, x, run_keys) = cell}}

\* enumerate(sorted(times), start=1): a null time sorts last
TimeRank(t, times) ==
    IF IsNull(t) THEN Cardinality(times)
    ELSE 1 + Cardinality({x \in times : ValLess(x, t)})

\* the writes session_df.loc[mask, "RunNumber"] = run_num, in loop order:
\* one per time point of every cell that has more than one time point
RunAssignments(df, run_keys, diff) ==
    {[cell |-> RunCellOf(df, i, run_keys),
      time |-> df.rows[i][diff],
      run  |-> TimeRank(df.rows[i][diff],
                        CellTimes(df, RunCellOf(df, i, run_keys), run_keys, diff))] :
        i \in {x \in RunCellRows(df, run_keys) :
                 Cardinality(CellTimes(df, RunCellOf(df, x, run_keys), run_keys, diff)) > 1}}

RunMaskNoKeys(df, i, a, run_keys, diff) ==
    /\ PyEq(df.rows[i]["AcquisitionSignature"], a.cell[Len(run_keys) + 1])
    /\ PyEq(df.rows[i]["SeriesDescription"], a.cell[Len(run_keys) + 2])
    /\ PyEq(df.rows[i][diff], a.time)

\* the mask of one write: signature, series description, time point and
\* every run key equal
RunMask(df, i, a, run_keys, diff) ==
    /\ PyEq(df.rows[i]["AcquisitionSignature"], a.cell[Len(run_keys) + 1])
    /\ PyEq(df.rows[i]["SeriesDescription"], a.cell[Len(run_keys) + 2])
    /\ PyEq(df.rows[i][diff], a.time)
    /\ \A k \in 1..Len(run_keys) : PyEq(df.rows[i][run_keys[k]], a.cell[k])

AssignBefore(a, b) == KeyLess(a.cell \o <<a.time>>, b.cell \o <<b.time>>)

\* RunNumber of row i: 1, overwritten by every write whose mask holds it
RunNumberOf(df, i, run_keys, diff) ==
    LET hits == {a \in RunAssignments(df, run_keys, diff) :
                    RunMask(df, i, a, run_keys, diff)}
    IN  IF hits = {} THEN 1
        ELSE (CHOOSE a \in hits : \A b \in hits : ~AssignBefore(a, b)).run

\* [raised, df]: RunNumber is set to 1 first; raises when there is no run
\* key, or when a column that a non-empty group is sorted or grouped by is
\* missing. df is the table as the call leaves it (it is written in place).
assign_temporal_runs(df0, run_group_fields) ==
    LET df == SetColumn(df0, "RunNumber", [i \in Idx(df0) |-> PyInt(1)])
        run_keys == FieldsPresent(run_group_fields, df.cols)
        diff == get_series_differentiator(df)
        groups == {i \in Idx(df) : ~HasNullKey(RowKey(df, i, run_keys))}
        missing == \/ diff \notin df.cols
                   \/ "AcquisitionSignature" \notin df.cols
                   \/ /\ "SeriesDescription" \notin df.cols
                      /\ \E i \in groups : ~IsNull(df.rows[i]["AcquisitionSignature"])
    IN  IF run_keys = <<>> \/ (groups # {} /\ missing)
        THEN [raised |-> TRUE, df |-> df]
        ELSE IF groups = {} THEN [raised |-> FALSE, df |-> df]
        ELSE [raised |-> FALSE,
              df |-> SetColumn(df, "RunNumber",
                        [i \in Idx(df) |-> PyInt(RunNumberOf(df, i, run_keys, diff))])]

EmptyTable == [cols |-> {}, rows |-> <<>>]

\* the whole pass: [raised, df, inplace], df the returned table and inplace
\* the caller's table as the call leaves it
assign_acquisition_and_run_numbers(df0) ==
    LET df1 == validate_and_setup_fields(df0)
        df2 == build_acquisition_signatures(df1, DEFAULT_ACQUISITION_FIELDS,
                                            DEFAULT_SETTINGS_FIELDS)
        r3 == assign_temporal_runs(df2, DEFAULT_RUN_GROUP_FIELDS)
        label(i) == IF IsNull(r3.df.rows[i]["AcquisitionSignature"])
                    THEN PyStr(Unknown)
                    ELSE r3.df.rows[i]["AcquisitionSignature"]
    IN  IF r3.raised THEN [raised |-> TRUE, df |-> EmptyTable, inplace |-> r3.df]
        ELSE [raised |-> FALSE,
              df |-> DropColumns(
                        SetColumn(r3.df, "Acquisition",
                                  [i \in Idx(r3.df) |-> label(i)]),
                        {"BaseAcquisition", "AcquisitionSignature"}),
              \* the Acquisition column is written before drop() copies
              inplace |-> SetColumn(r3.df, "Acquisition",
                                    [i \in Idx(r3.df) |-> label(i)])]

----------------------------------------------------------------------------
(* Specification SpecAcq: one pass of assign_acquisition_and_run_numbers   *)
(* over every table of at most MaxAcqRecords records                       *)

MaxAcqRecords == 3

AcqProtocols == {<<"t", "1">>, <<"T", "-", "1">>}
Combined == <<"C","o","m","b","i","n","e","d">>
Uncombined == <<"U","n","c","o","m","b","i","n","e","d">>

\* the optional columns of the tables explored
AcqColumnSets == {{}, {"RepetitionTime"}, {"CoilType"},
                  {"RepetitionTime", "InversionTime"},
                  {"RepetitionTime", "CoilType"}}
AcqFixedCols == {"ProtocolName", "SeriesDescription", "SeriesTime"}

AcqRows(cols) ==
    {[c \in cols |->
        CASE c = "ProtocolName" -> PyStr(p)
          [] c = "RepetitionTime" -> rt
          [] c = "InversionTime" -> ti
          [] c = "CoilType" -> PyStr(coil)
          [] c = "SeriesDescription" -> PyStr(<<"d">>)
          [] OTHER -> PyStr(<<"0", "9">>)] :
        p \in AcqProtocols,
        rt \in {NaN, PyFloat(1), PyFloat(2)},
        ti \in {NaN, PyFloat(1)},
        coil \in {Combined, Uncombined}}

Idle ==
    /\ out_df = EmptyTable
    /\ raised = FALSE
    /\ score_args = <<>>
    /\ score = 0
    /\ in_session = <<>>
    /\ ref_session = <<>>
    /\ mapping = <<>>
    /\ compliance_summary = <<>>
    /\ cursor = 0
    /\ schema = <<>>
    /\ wire = <<>>
    /\ ref_models = <<>>
    /\ raise_errors = FALSE
    /\ validation = <<>>
    /\ caller_before = <<>>
    /\ MenuIdle

InitAcq ==
    /\ pc = "acq_call"
    /\ \E opt \in AcqColumnSets, k \in 1..MaxAcqRecords :
         \E rows \in [1..k -> AcqRows(AcqFixedCols \cup opt)] :
            session_df = [cols |-> AcqFixedCols \cup opt, rows |-> rows]
    /\ Idle

AssignAcquisitionAndRunNumbers ==
    /\ pc = "acq_call"
    /\ LET r == assign_acquisition_and_run_numbers(session_df)
       IN  /\ out_df' = r.df
           /\ raised' = r.raised
           /\ session_df' = r.inplace
    /\ pc' = "acq_done"
    /\ UNCHANGED <<score_args, score, in_session, ref_session, mapping,
                   compliance_summary, cursor, schema, wire,
                   ref_models, raise_errors, validation,
                   caller_before,
                   reverse_mapping, selected_ref_idx, selected_input_idx,
                   initial_mapping>>

NextAcq == AssignAcquisitionAndRunNumbers

SpecAcq == InitAcq /\ [][NextAcq]_vars

\* C1: in one pass, two records with the same protocol name and identical
\* values of all settings fields get the same Acquisition label, and two
\* records that differ in at least one settings field get different labels.
\* (CoilType, which the grouper always splits by, is counted as a settings
\* field here.)
C1_SignatureLabels ==
    (pc = "acq_done" /\ ~raised) =>
        \A i, j \in Idx(out_df) :
            LET settings == grouping_fields(out_df, DEFAULT_SETTINGS_FIELDS)
                sameProtocol == out_df.rows[i]["ProtocolName"]
                                    = out_df.rows[j]["ProtocolName"]
                sameSettings == RowKey(out_df, i, settings)
                                    = RowKey(out_df, j, settings)
                sameLabel == out_df.rows[i]["Acquisition"]
                                    = out_df.rows[j]["Acquisition"]
            IN  /\ (sameProtocol /\ sameSettings) => sameLabel
                /\ ~sameSettings => ~sameLabel

----------------------------------------------------------------------------
(* Specification SpecRuns: assign_temporal_runs over every signed table of *)
(* at most MaxRunRecords records                                           *)

MaxRunRecords == 3

RunPatients == {<<"P", "1">>, <<"P", "2">>}
RunTimes == {<<"0", "9", "1">>, <<"0", "9", "2">>, <<"1", "0", "1">>}
\* (AcquisitionSignature, SeriesDescription) of a record
RunSeriesPairs == {<<<<"a","c","q","-","t","1","-","1">>, <<"d">>>>,
                   <<<<"a","c","q","-","t","1","-","1">>, <<"e">>>>,
                   <<<<"a","c","q","-","t","1","-","2">>, <<"d">>>>}
RunDifferentiators == {"SeriesTime", "SeriesInstanceUID"}

RunCols(d) == {"PatientID", "ProtocolName", "AcquisitionSignature",
               "SeriesDescription", d}

RunRows(d) ==
    {[c \in RunCols(d) |->
        CASE c = "PatientID" -> PyStr(p)
          [] c = "ProtocolName" -> PyStr(<<"t", "1">>)
          [] c = "AcquisitionSignature" -> PyStr(sd[1])
          [] c = "SeriesDescription" -> PyStr(sd[2])
          [] OTHER -> PyStr(t)] :
        p \in RunPatients, sd \in RunSeriesPairs, t \in RunTimes}

InitRuns ==
    /\ pc = "runs_call"
    /\ \E d \in RunDifferentiators, k \in 1..MaxRunRecords :
         \E rows \in [1..k -> RunRows(d)] :
            session_df = [cols |-> RunCols(d), rows |-> rows]
    /\ Idle

AssignTemporalRuns ==
    /\ pc = "runs_call"
    /\ LET r == assign_temporal_runs(session_df, DEFAULT_RUN_GROUP_FIELDS)
       IN  /\ out_df' = r.df
           /\ raised' = r.raised
           /\ session_df' = r.df
    /\ pc' = "runs_done"
    /\ UNCHANGED <<score_args, score, in_session, ref_session, mapping,
                   compliance_summary, cursor, schema, wire,
                   ref_models, raise_errors, validation,
                   caller_before,
                   reverse_mapping, selected_ref_idx, selected_input_idx,
                   initial_mapping>>

NextRuns == AssignTemporalRuns

SpecRuns == InitRuns /\ [][NextRuns]_vars

\* the records of out_df in the run-identity group and (Acquisition,
\* SeriesDescription) pair of record i
RunPairOf(i) ==
    {j \in Idx(out_df) :
        /\ out_df.rows[j]["PatientID"] = out_df.rows[i]["PatientID"]
        /\ out_df.rows[j]["ProtocolName"] = out_df.rows[i]["ProtocolName"]
        /\ out_df.rows[j]["AcquisitionSignature"]
               = out_df.rows[i]["AcquisitionSignature"]
        /\ out_df.rows[j]["SeriesDescription"] = out_df.rows[i]["SeriesDescription"]}

OrderValue(i) == out_df.rows[i][get_series_differentiator(out_df)]

----------------------------------------------------------------------------
(* SessionMatcher, the field distance: dcm_check/mapping.py *)

MAX_DIFF_SCORE == 10

Min(a, b) == IF a < b THEN a ELSE b
Max(a, b) == IF a > b THEN a ELSE b
Abs(x) == IF x < 0 THEN 0 - x ELSE x

\* one row of the dynamic programme: current_row for the character c1,
\* cur holding the cells built so far
RECURSIVE LevRow(_, _, _, _)
LevRow(c1, s2, prev, cur) ==
    IF Len(cur) > Len(s2) THEN cur
    ELSE LET j == Len(cur)
             insertions == prev[j + 1] + 1
             deletions == cur[j] + 1
             substitutions == prev[j] + (IF c1 # s2[j] THEN 1 ELSE 0)
         IN  LevRow(c1, s2, prev,
                    Append(cur, Min(insertions, Min(deletions, substitutions))))

RECURSIVE LevRows(_, _, _, _)
LevRows(s1, s2, i, prev) ==
    IF i > Len(s1) THEN prev
    ELSE LevRows(s1, s2, i + 1, LevRow(s1[i], s2, prev, <<i>>))

levenshtein_distance(a, b) ==
    LET s1 == IF Len(a) < Len(b) THEN b ELSE a
        s2 == IF Len(a) < Len(b) THEN a ELSE b
        last == LevRows(s1, s2, 1, [k \in 1..(Len(s2) + 1) |-> k - 1])
    IN  last[Len(s2) + 1]

\* expected.replace("*", ".*").replace("?", ".")
RECURSIVE ReplaceWildcards(_)
ReplaceWildcards(s) ==
    IF s = <<>> THEN <<>>
    ELSE (CASE Head(s) = "*" -> <<".", "*">>
            [] Head(s) = "?" -> <<".">>
            [] OTHER -> <<Head(s)>>) \o ReplaceWildcards(Tail(s))

WildcardPattern(expected) == <<"^">> \o ReplaceWildcards(expected) \o <<"$">>

\* re.match of the regular expression re (from position i) on the text str
\* (from position j): "^" and "$" are anchors, "." is any character, ".*"
\* any run of characters, every other character of the model is a literal
RECURSIVE ReMatch(_, _, _, _)
ReMatch(re, i, str, j) ==
    IF i > Len(re) THEN TRUE
    ELSE IF re[i] = "^" THEN j = 1 /\ ReMatch(re, i + 1, str, j)
    ELSE IF re[i] = "$" THEN j = Len(str) + 1 /\ ReMatch(re, i + 1, str, j)
    ELSE IF re[i] = "." /\ i < Len(re) /\ re[i + 1] = "*"
         THEN \E k \in j..(Len(str) + 1) : ReMatch(re, i + 2, str, k)
    ELSE IF re[i] = "."
         THEN j <= Len(str) /\ ReMatch(re, i + 1, str, j + 1)
    ELSE j <= Len(str) /\ str[j] = re[i] /\ ReMatch(re, i + 1, str, j + 1)

HasWildcard(s) == \E i \in 1..Len(s) : s[i] \in {"*", "?"}

\* contains in actual, for a str actual: substring
IsSubstring(x, y) ==
    \E k \in 0..(Len(y) - Len(x)) : SubSeq(y, k + 1, k + Len(x)) = x

\* contains in actual, for a list or tuple actual
IsMember(x, xs) == \E k \in 1..Len(xs) : PyEq(xs[k], x)

\* bool(v)
Truthy(v) ==
    CASE v.t = "none" -> FALSE
      [] v.t = "str" -> v.s # <<>>
      [] IsSeqValue(v) -> v.l # <<>>
      [] v.t = "nan" -> TRUE
      [] OTHER -> v.n # 0

\* tuple(v): defined for a list, a tuple and a str (its characters)
CanTuple(v) == IsSeqValue(v) \/ v.t = "str"
TupleOf(v) == IF IsSeqValue(v) THEN v.l ELSE [k \in 1..Len(v.s) |-> PyStr(<<v.s[k]>>)]

RECURSIVE SumSeq(_)
SumSeq(xs) == IF xs = <<>> THEN 0 ELSE Head(xs) + SumSeq(Tail(xs))

\* what a scoring call does: v is the whole part of the score it returns
\* and milli the thousandths beyond it
Returned(v) == [raised |-> FALSE, v |-> v, milli |-> 0]
ReturnedMilli(m) == [raised |-> FALSE, v |-> m \div 1000, milli |-> m % 1000]
Raised == [raised |-> TRUE, v |-> 0, milli |-> 0]
\* a returned score in thousandths
ScoreMilli(r) == 1000 * r.v + r.milli

\* the numeric branch without the cap
NumericScoreUncapped(expected, actual, tolerance) ==
    IF expected.t = "nan" \/ actual.t = "nan" THEN 1000 * MAX_DIFF_SCORE
    ELSE IF tolerance.t # "none"
            /\ Abs(Milli(expected) - Milli(actual)) <= Milli(tolerance)
    THEN 0
    ELSE Abs(Milli(expected) - Milli(actual))

\* the numeric branch with a difference equal to the tolerance counted
NumericScoreBelowTolerance(expected, actual, tolerance) ==
    IF expected.t = "nan" \/ actual.t = "nan" THEN 1000 * MAX_DIFF_SCORE
    ELSE IF tolerance.t # "none"
            /\ Abs(Milli(expected) - Milli(actual)) < Milli(tolerance)
    THEN 0
    ELSE Min(1000 * MAX_DIFF_SCORE, Abs(Milli(expected) - Milli(actual)))

\* both values numbers: 0 within the tolerance, else the capped difference
\* (a comparison with nan is false, and min(MAX_DIFF_SCORE, nan) is the cap);
\* the score is in thousandths
NumericScore(expected, actual, tolerance) ==
    IF expected.t = "nan" \/ actual.t = "nan" THEN 1000 * MAX_DIFF_SCORE
    ELSE IF tolerance.t # "none"
            /\ Abs(Milli(expected) - Milli(actual)) <= Milli(tolerance)
    THEN 0
    ELSE Min(1000 * MAX_DIFF_SCORE, Abs(Milli(expected) - Milli(actual)))

\* expected or actual a list or tuple
ListScore(expected, actual, tolerance) ==
    LET e == TupleOf(expected)
        a == TupleOf(actual)
        n == Max(Len(e), Len(a))
        pad(xs, k) == IF k <= Len(xs) THEN StrOf(xs[k]) ELSE <<>>
    IN  IF /\ \A k \in 1..Len(e) : IsNumber(e[k])
           /\ \A k \in 1..Len(a) : IsNumber(a[k])
           /\ Len(e) = Len(a)
           /\ tolerance.t # "none"
        THEN Min(1000 * MAX_DIFF_SCORE,
                 SumSeq([k \in 1..Len(e) |->
                            IF e[k].t # "nan" /\ a[k].t # "nan"
                               /\ Abs(Milli(e[k]) - Milli(a[k])) > Milli(tolerance)
                            THEN Abs(Milli(e[k]) - Milli(a[k])) ELSE 0]))
        ELSE 1000 * Min(MAX_DIFF_SCORE,
                 SumSeq([k \in 1..n |-> levenshtein_distance(pad(e, k), pad(a, k))]))

\* expected a wildcard pattern: the pattern is matched on actual, which
\* must be a str
WildcardScore(expected, actual) ==
    IF actual.t # "str" THEN Raised
    ELSE IF ReMatch(WildcardPattern(expected.s), 1, actual.s, 1) THEN Returned(0)
    ELSE Returned(Min(MAX_DIFF_SCORE, 5))

\* [raised, v]: the score, or raised when the call ends in a TypeError
calculate_field_score(expected, actual, tolerance, contains) ==
    IF expected.t = "str" /\ HasWildcard(expected.s)
    THEN WildcardScore(expected, actual)
    ELSE IF Truthy(contains)
    THEN IF actual.t = "str"
         THEN IF contains.t # "str" THEN Raised
              ELSE IF IsSubstring(contains.s, actual.s) THEN Returned(0)
              ELSE Returned(Min(MAX_DIFF_SCORE, 5))
         ELSE IF IsSeqValue(actual) /\ IsMember(contains, actual.l) THEN Returned(0)
         ELSE Returned(Min(MAX_DIFF_SCORE, 5))
    ELSE IF IsSeqValue(expected) \/ IsSeqValue(actual)
    THEN IF ~CanTuple(expected) \/ ~CanTuple(actual) THEN Raised
         ELSE ReturnedMilli(ListScore(expected, actual, tolerance))
    ELSE IF IsNumber(expected) /\ IsNumber(actual)
    THEN ReturnedMilli(NumericScore(expected, actual, tolerance))
    ELSE Returned(Min(MAX_DIFF_SCORE,
                      levenshtein_distance(StrOf(expected), StrOf(actual))))

----------------------------------------------------------------------------
(* calculate_field_score on bounded values *)

MaxStrLen == 2

\* "a" is an ordinary character, "*" and "?" are the wildcards, "$" is a
\* character the regular-expression engine gives a meaning of its own
ScoreAlphabet == {"a", "*", "?", "$"}

ScoreStrings ==
    UNION {[1..k -> ScoreAlphabet] : k \in 0..MaxStrLen}

\* a string longer than the cap, to bring the edit distance above it
LongString == [k \in 1..(MAX_DIFF_SCORE + 1) |-> "a"]

ScoreNumbers == {PyInt(0), PyInt(3), PyFloat(3), PyInt(14)}

ScoreLists ==
    {PyList(<<>>), PyList(<<PyInt(0)>>), PyList(<<PyInt(0), PyInt(14)>>),
     PyTuple(<<PyStr(<<"a">>)>>), PyList(<<PyStr(<<"a">>), PyInt(3)>>)}

ScoreValues ==
    {PyStr(cs) : cs \in ScoreStrings} \cup {PyStr(LongString), PyNone}
        \cup ScoreNumbers \cup ScoreLists

ScoreTolerances == {PyNone, PyInt(0), PyInt(2)}
ScoreContains == {PyNone, PyStr(<<"a">>), PyInt(3)}

InitScore ==
    /\ pc = "score_call"
    /\ \E expected \in ScoreValues, actual \in ScoreValues,
          tolerance \in ScoreTolerances, contains \in ScoreContains :
         score_args = [expected |-> expected, actual |-> actual,
                       tolerance |-> tolerance, contains |-> contains]
    /\ session_df = EmptyTable
    /\ out_df = EmptyTable
    /\ raised = FALSE
    /\ score = 0
    /\ in_session = <<>>
    /\ ref_session = <<>>
    /\ mapping = <<>>
    /\ compliance_summary = <<>>
    /\ cursor = 0
    /\ schema = <<>>
    /\ wire = <<>>
    /\ ref_models = <<>>
    /\ raise_errors = FALSE
    /\ validation = <<>>
    /\ caller_before = <<>>
    /\ MenuIdle

CalculateFieldScore ==
    /\ pc = "score_call"
    /\ LET r == calculate_field_score(score_args.expected, score_args.actual,
                                      score_args.tolerance, score_args.contains)
       IN  /\ raised' = r.raised
           /\ score' = r.v
    /\ pc' = "score_done"
    /\ UNCHANGED <<session_df, out_df, score_args, in_session, ref_session,
                   mapping, compliance_summary, cursor, schema, wire,
                   ref_models, raise_errors, validation,
                   caller_before,
                   reverse_mapping, selected_ref_idx, selected_input_idx,
                   initial_mapping>>

NextScore == CalculateFieldScore

SpecScore == InitScore /\ [][NextScore]_vars

\* C5: a value scored against itself, with any tolerance and no contains
\* requirement, gives 0.
C5_ReflexiveScore ==
    (/\ pc = "score_done"
     /\ score_args.actual = score_args.expected
     /\ score_args.contains = PyNone)
        => (~raised /\ score = 0)

----------------------------------------------------------------------------
(* SessionMatcher, the assignment: dcm_check/mapping.py *)

\* A session is the sequence of its acquisitions in dictionary order; an
\* acquisition has a name, fields and series, a series a name and fields.

\* round(x, 2) of x >= 0 given in thousandths, in thousandths; a value
\* halfway between two hundredths goes to the even one
RoundHundredths(m) ==
    LET q == m \div 10
        r == m % 10
    IN  IF r < 5 THEN 10 * q
        ELSE IF r > 5 THEN 10 * (q + 1)
        ELSE IF q % 2 = 0 THEN 10 * q ELSE 10 * (q + 1)

\* next((f for f in in_fields if f["field"] == name), {}).get("value")
ActualValue(in_fields, name) ==
    IF \E k \in 1..Len(in_fields) : in_fields[k].field = name
    THEN in_fields[CHOOSE k \in 1..Len(in_fields) :
                      /\ in_fields[k].field = name
                      /\ \A j \in 1..(k - 1) : in_fields[j].field # name].value
    ELSE PyNone

\* the same without the rounding
calculate_match_score_unrounded(ref_row, in_row) ==
    LET diffs == [k \in 1..Len(ref_row.fields) |->
                     calculate_field_score(
                         ref_row.fields[k].value,
                         ActualValue(in_row.fields, ref_row.fields[k].field),
                         ref_row.fields[k].tolerance,
                         ref_row.fields[k].contains)]
    IN  IF \E k \in 1..Len(diffs) : diffs[k].raised THEN Raised
        ELSE ReturnedMilli(SumSeq([k \in 1..Len(diffs) |-> ScoreMilli(diffs[k])]))

calculate_match_score(ref_row, in_row) ==
    LET diffs == [k \in 1..Len(ref_row.fields) |->
                     calculate_field_score(
                         ref_row.fields[k].value,
                         ActualValue(in_row.fields, ref_row.fields[k].field),
                         ref_row.fields[k].tolerance,
                         ref_row.fields[k].contains)]
    IN  IF \E k \in 1..Len(diffs) : diffs[k].raised THEN Raised
        ELSE ReturnedMilli(RoundHundredths(
                 SumSeq([k \in 1..Len(diffs) |-> ScoreMilli(diffs[k])])))

\* the (acquisition, series) entries of a session in iteration order
RECURSIVE SeriesEntries(_)
SeriesEntries(session) ==
    IF session = <<>> THEN <<>>
    ELSE LET acq == Head(session)
         IN  [k \in 1..Len(acq.series) |-> [acq |-> acq, series |-> acq.series[k]]]
                 \o SeriesEntries(Tail(session))

EntryKey(e) == <<e.acq.name, e.series.name>>

\* reference_keys: each key appended unless already present
RECURSIVE AppendNew(_, _)
AppendNew(keys, more) ==
    IF more = <<>> THEN keys
    ELSE AppendNew(IF \E k \in 1..Len(keys) : keys[k] = Head(more)
                   THEN keys ELSE Append(keys, Head(more)),
                   Tail(more))

\* the cost of a cell without the acquisition-level score
series_score_only(ref_acq, in_acq, ref_series, in_series) ==
    calculate_match_score(ref_series, in_series)

\* the cost of assigning an input series to a reference series
total_score(ref_acq, in_acq, ref_series, in_series) ==
    LET acq_score == calculate_match_score(ref_acq, in_acq)
        series_score == calculate_match_score(ref_series, in_series)
    IN  IF acq_score.raised \/ series_score.raised THEN Raised
        ELSE ReturnedMilli(ScoreMilli(acq_score) + ScoreMilli(series_score))

RECURSIVE AssignmentCost(_, _, _)
AssignmentCost(cost, f, rows) ==
    IF rows = {} THEN 0
    ELSE LET r == CHOOSE x \in rows : TRUE
         IN  cost[r][f[r]] + AssignmentCost(cost, f, rows \ {r})

\* the one-to-one assignments of min(n, m) rows to columns
Assignments(n, m) ==
    {f \in UNION {[R -> 1..m] : R \in SUBSET (1..n)} :
        /\ Cardinality(DOMAIN f) = Min(n, m)
        /\ \A r1, r2 \in DOMAIN f : f[r1] = f[r2] => r1 = r2}

\* every row takes its cheapest column, whether or not another row has it
row_minimum(cost, n, m) ==
    IF m = 0 THEN {<<>>}
    ELSE {[r \in 1..n |-> CHOOSE c \in 1..m : \A d \in 1..m : cost[r][c] <= cost[r][d]]}

\* scipy.optimize.linear_sum_assignment on an n by m matrix: the set of
\* its possible results, the minimum-cost complete assignments (which one
\* of several of equal cost is returned is left to the solver)
linear_sum_assignment(cost, n, m) ==
    {f \in Assignments(n, m) :
        \A g \in Assignments(n, m) :
            AssignmentCost(cost, f, DOMAIN f) <= AssignmentCost(cost, g, DOMAIN g)}

\* mapping[input_keys[row]] = reference_keys[col], rows in ascending order
RECURSIVE StoreAssignment(_, _, _, _, _)
StoreAssignment(m, f, row, input_keys, reference_keys) ==
    IF row > Len(input_keys) THEN m
    ELSE StoreAssignment(
             IF row \in DOMAIN f /\ f[row] <= Len(reference_keys)
             THEN {p \in m : p[1] # input_keys[row]}
                     \cup {<<input_keys[row], reference_keys[f[row]]>>}
             ELSE m,
             f, row + 1, input_keys, reference_keys)

\* [raised, mappings]: the mappings map_session can return, each a set of
\* <<input key, reference key>> items, or raised when the call ends in an
\* exception
map_session(ins, refs) ==
    LET rows == SeriesEntries(ins)
        cols == SeriesEntries(refs)
        input_keys == [r \in 1..Len(rows) |-> EntryKey(rows[r])]
        reference_keys ==
            AppendNew(<<>>, [c \in 1..Len(cols) |-> EntryKey(cols[c])])
        cells == [r \in 1..Len(rows) |-> [c \in 1..Len(cols) |->
                     total_score(cols[c].acq, rows[r].acq,
                                 cols[c].series, rows[r].series)]]
        cost_matrix == [r \in 1..Len(rows) |-> [c \in 1..Len(cols) |->
                           ScoreMilli(cells[r][c])]]
    IN  IF \E r \in 1..Len(rows) : \E c \in 1..Len(cols) : cells[r][c].raised
        THEN [raised |-> TRUE, mappings |-> {}]
        ELSE IF rows = <<>>
        THEN [raised |-> TRUE, mappings |-> {}]
        ELSE [raised |-> FALSE,
              mappings |->
                  {StoreAssignment({}, f, 1, input_keys, reference_keys) :
                      f \in linear_sum_assignment(cost_matrix, Len(rows), Len(cols))}]

----------------------------------------------------------------------------
(* map_session on bounded sessions *)

MaxMapSeries == 2

MapValues == {PyInt(1), PyInt(9)}
MapAcqNames == <<"A1", "A2">>
MapSeriesNames == <<"S1", "S2", "S3">>

RefField(name, v) ==
    [field |-> name, value |-> v, tolerance |-> PyNone, contains |-> PyNone]
InField(name, v) == [field |-> name, value |-> v]

\* the series lists of k series, named in order, each with one field
MapSeries(k, isRef) ==
    {[i \in 1..k |-> [name |-> MapSeriesNames[i],
                      fields |-> <<IF isRef THEN RefField("EchoTime", vs[i])
                                            ELSE InField("EchoTime", vs[i])>>]] :
        vs \in [1..k -> MapValues]}

\* the field lists of an acquisition: one field; an input acquisition may
\* lack it
MapAcqFields(isRef) ==
    IF isRef THEN {<<RefField("RepetitionTime", v)>> : v \in MapValues}
    ELSE {<<InField("RepetitionTime", v)>> : v \in MapValues} \cup {<<>>}

MapAcquisitions(i, k, isRef) ==
    {[name |-> MapAcqNames[i], fields |-> fs, series |-> ss] :
        fs \in MapAcqFields(isRef), ss \in MapSeries(k, isRef)}

\* sessions of at most two acquisitions and MaxMapSeries series in all
MapSessions(isRef) ==
    {<<>>}
    \cup UNION {{<<a>> : a \in MapAcquisitions(1, k, isRef)} : k \in 0..MaxMapSeries}
    \cup UNION {UNION {{<<a, b>> : a \in MapAcquisitions(1, k1, isRef),
                                   b \in MapAcquisitions(2, k2, isRef)} :
                       k2 \in 0..(MaxMapSeries - k1)} :
                k1 \in 0..MaxMapSeries}

InitMap ==
    /\ pc = "map_call"
    /\ in_session \in MapSessions(FALSE)
    /\ ref_session \in MapSessions(TRUE)
    /\ mapping = {}
    /\ session_df = EmptyTable
    /\ out_df = EmptyTable
    /\ raised = FALSE
    /\ score_args = <<>>
    /\ score = 0
    /\ compliance_summary = <<>>
    /\ cursor = 0
    /\ schema = <<>>
    /\ wire = <<>>
    /\ ref_models = <<>>
    /\ raise_errors = FALSE
    /\ validation = <<>>
    /\ caller_before = <<>>
    /\ MenuIdle

MapSession ==
    /\ pc = "map_call"
    /\ LET r == map_session(in_session, ref_session)
       IN  /\ raised' = r.raised
           /\ IF r.raised THEN mapping' = {}
              ELSE \E m \in r.mappings : mapping' = m
    /\ pc' = "map_done"
    /\ UNCHANGED <<session_df, out_df, score_args, score, in_session,
                   ref_session, compliance_summary, cursor, schema, wire,
                   ref_models, raise_errors, validation,
                   caller_before,
                   reverse_mapping, selected_ref_idx, selected_input_idx,
                   initial_mapping>>

NextMap == MapSession

SpecMap == InitMap /\ [][NextMap]_vars

InputKeys == {EntryKey(SeriesEntries(in_session)[r]) :
                 r \in 1..Len(SeriesEntries(in_session))}
ReferenceKeys == {EntryKey(SeriesEntries(ref_session)[c]) :
                     c \in 1..Len(SeriesEntries(ref_session))}

\* the cost of pairing the input series ik with the reference series rk:
\* the acquisition-level score plus the series-level score
PairCost(ik, rk) ==
    LET ie == CHOOSE e \in {SeriesEntries(in_session)[r] :
                               r \in 1..Len(SeriesEntries(in_session))} :
                  EntryKey(e) = ik
        re == CHOOSE e \in {SeriesEntries(ref_session)[c] :
                               c \in 1..Len(SeriesEntries(ref_session))} :
                  EntryKey(e) = rk
    IN  calculate_match_score(re.acq, ie.acq).v
            + calculate_match_score(re.series, ie.series).v

RECURSIVE PairingCost(_)
PairingCost(pairs) ==
    IF pairs = {} THEN 0
    ELSE LET p == CHOOSE x \in pairs : TRUE
         IN  PairCost(p[1], p[2]) + PairingCost(pairs \ {p})

OneToOne(pairs) ==
    \A p, q \in pairs : (p[1] = q[1]) <=> (p[2] = q[2])

\* the one-to-one pairings of input with reference series of maximal size
MaximalPairings ==
    {P \in SUBSET (InputKeys \X ReferenceKeys) :
        /\ OneToOne(P)
        /\ Cardinality(P) = Min(Cardinality(InputKeys), Cardinality(ReferenceKeys))}

\* C3: the returned mapping gives no reference series to two input series
\* and no input series two reference series.
C3_Injective ==
    (pc = "map_done" /\ ~raised) =>
        \A p, q \in mapping : (p[1] = q[1]) <=> (p[2] = q[2])

\* two input series whose cheapest reference series is the same one
C3_Witness ==
    /\ pc = "map_done"
    /\ ~raised
    /\ Cardinality(mapping) = 2
    /\ \E rk \in ReferenceKeys :
          \A ik \in InputKeys : \A other \in ReferenceKeys \ {rk} :
              PairCost(ik, rk) < PairCost(ik, other)

\* C4: the returned mapping is a one-to-one pairing of maximal size whose
\* total cost, acquisition-level plus series-level score of each pair, is
\* minimal among all such pairings.
C4_MinimalCost ==
    (pc = "map_done" /\ ~raised) =>
        /\ mapping \in MaximalPairings
        /\ \A P \in MaximalPairings : PairingCost(mapping) <= PairingCost(P)

\* one input series offered a score-0 and a score-8 reference series
C4_Witness ==
    /\ pc = "map_done"
    /\ ~raised
    /\ Cardinality(InputKeys) = 1
    /\ Cardinality(ReferenceKeys) = 2
    /\ \E ik \in InputKeys : \E r0, r8 \in ReferenceKeys :
          /\ PairCost(ik, r0) = 0
          /\ PairCost(ik, r8) = 8
          /\ mapping = {<<ik, r0>>}

----------------------------------------------------------------------------
(* ComplianceEngine: dicompare/compliance.py                                *)
(* A reference session is the sequence of its acquisitions in dictionary    *)
(* order, names being strings (character sequences); a session map is the   *)
(* sequence of its <<reference name, input name>> items.  Constraints are   *)
(* well formed: contains is a str, a tolerance comes with a numeric value.  *)

\* the k-th smallest element of a set of row numbers
NthOf(S, k) == CHOOSE i \in S : Cardinality({j \in S : j < i}) = k - 1

\* df[mask]: the rows whose numbers are in S, in order
SelectRows(df, S) ==
    [cols |-> df.cols,
     rows |-> [k \in 1..Cardinality(S) |-> df.rows[NthOf(S, k)]]]

\* equality of cells as Series.unique and groupby see it: nan is one value
SameCell(a, b) == (a.t = "nan" /\ b.t = "nan") \/ PyEq(a, b)

\* df[field].unique().tolist(): distinct values in order of first appearance
UniqueValues(df, field) ==
    LET firsts == {i \in Idx(df) :
                      \A j \in 1..(i - 1) :
                          ~SameCell(df.rows[j][field], df.rows[i][field])}
    IN  [k \in 1..Cardinality(firsts) |-> df.rows[NthOf(firsts, k)][field]]

\* contains in val, for a str, list or tuple val
ContainsIn(contains, val) ==
    IF val.t = "str" THEN IsSubstring(contains.s, val.s)
    ELSE IsMember(contains, val.l)

\* set(a) == set(b)
SameSet(a, b) ==
    /\ \A i \in 1..Len(a) : IsMember(a[i], b)
    /\ \A i \in 1..Len(b) : IsMember(b[i], a)

\* the range check with the edges excluded
InToleranceExclusive(val, expected_value, tolerance) ==
    /\ val.t # "nan"
    /\ Milli(expected_value) - Milli(tolerance) < Milli(val)
    /\ Milli(val) < Milli(expected_value) + Milli(tolerance)

InTolerance(val, expected_value, tolerance) ==
    /\ val.t # "nan"
    /\ Milli(expected_value) - Milli(tolerance) <= Milli(val)
    /\ Milli(val) <= Milli(expected_value) + Milli(tolerance)

\* whether val is an invalid value under the constraint, by the kind of
\* the constraint: contains, then tolerance, then list value, then value
IsInvalidValue(val, expected_value, tolerance, contains) ==
    IF contains.t # "none"
    THEN ~(val.t \in {"str", "list", "tuple"}) \/ ~ContainsIn(contains, val)
    ELSE IF tolerance.t # "none"
    THEN ~IsNumber(val) \/ ~InTolerance(val, expected_value, tolerance)
    ELSE IF expected_value.t = "list"
    THEN val.t # "list" \/ ~SameSet(val.l, expected_value.l)
    ELSE IF expected_value.t # "none"
    THEN ~PyEq(val, expected_value)
    ELSE FALSE

\* the row filter with the tolerance branch letting every number through
_row_passes_constraint_any_number(actual_value, expected_value, tolerance, contains) ==
    IF contains.t # "none"
    THEN IF ~(actual_value.t \in {"str", "list", "tuple"}) THEN FALSE
         ELSE ContainsIn(contains, actual_value)
    ELSE IF tolerance.t # "none"
    THEN IsNumber(actual_value)
    ELSE IF expected_value.t = "list"
    THEN IF actual_value.t # "list" THEN FALSE
         ELSE SameSet(actual_value.l, expected_value.l)
    ELSE IF expected_value.t # "none"
    THEN PyEq(actual_value, expected_value)
    ELSE TRUE

_row_passes_constraint(actual_value, expected_value, tolerance, contains) ==
    IF contains.t # "none"
    THEN IF ~(actual_value.t \in {"str", "list", "tuple"}) THEN FALSE
         ELSE ContainsIn(contains, actual_value)
    ELSE IF tolerance.t # "none"
    THEN IF ~IsNumber(actual_value) THEN FALSE
         ELSE InTolerance(actual_value, expected_value, tolerance)
    ELSE IF expected_value.t = "list"
    THEN IF actual_value.t # "list" THEN FALSE
         ELSE SameSet(actual_value.l, expected_value.l)
    ELSE IF expected_value.t # "none"
    THEN PyEq(actual_value, expected_value)
    ELSE TRUE

\* texts are sequences of characters in which a field name is one symbol
RECURSIVE JoinText(_, _)
JoinText(parts, sep) ==
    IF parts = <<>> THEN <<>>
    ELSE IF Len(parts) = 1 THEN parts[1]
    ELSE parts[1] \o sep \o JoinText(Tail(parts), sep)

\* repr(v): a str in quotes, a list in brackets, a tuple in parentheses
RECURSIVE ReprOf(_)
ReprOf(v) ==
    CASE v.t = "str" -> <<"'">> \o v.s \o <<"'">>
      [] v.t = "list" ->
            <<"[">> \o JoinText([k \in 1..Len(v.l) |-> ReprOf(v.l[k])], <<",", " ">>)
                \o <<"]">>
      [] v.t = "tuple" ->
            <<"(">> \o JoinText([k \in 1..Len(v.l) |-> ReprOf(v.l[k])], <<",", " ">>)
                \o (IF Len(v.l) = 1 THEN <<",">> ELSE <<>>) \o <<")">>
      [] OTHER -> StrOf(v)

\* the text of v inside an f-string: str(v)
FormatOf(v) == IF v.t = "str" THEN v.s ELSE ReprOf(v)

\* f"(value={expected_value}, tolerance={tolerance}, contains={contains})"
ConstraintText(expected_value, tolerance, contains) ==
    <<"(", "v", "a", "l", "u", "e", "=">> \o FormatOf(expected_value)
        \o <<",", " ", "t", "o", "l", "e", "r", "a", "n", "c", "e", "=">> \o FormatOf(tolerance)
        \o <<",", " ", "c", "o", "n", "t", "a", "i", "n", "s", "=">> \o FormatOf(contains) \o <<")">>

\* f"contains='{contains}'"
ContainsText(contains) ==
    <<"c", "o", "n", "t", "a", "i", "n", "s", "=", "'">> \o FormatOf(contains) \o <<"'">>

\* f"value={expected_value} ± {tolerance}"
ToleranceText(expected_value, tolerance) ==
    <<"v", "a", "l", "u", "e", "=">> \o FormatOf(expected_value) \o <<" ", "±", " ">>
        \o FormatOf(tolerance)

\* f"value={expected_value}"
ValueText(expected_value) ==
    <<"v", "a", "l", "u", "e", "=">> \o FormatOf(expected_value)

\* the keys of a record of the report checked against a JSON reference
JsonRecordKeys ==
    {"reference acquisition", "input acquisition", "series", "field",
     "expected", "value", "message", "passed"}

\* one record of the report: keys are the keys of the dictionary, field is
\* the sequence of the field names the record is about (empty for None),
\* expected the expected text (for a found series the texts of its fields in
\* order), value a list of values or None (for a series the lists of its
\* fields in order), invalid the values the message lists, passed TRUE for
\* the pass mark
ReportRecord(ref, inp, series, field, expected, value, message, invalid, passed) ==
    [keys |-> JsonRecordKeys,
     ref |-> ref, inp |-> inp, series |-> series, field |-> field,
     expected |-> expected, value |-> value, message |-> message,
     invalid |-> invalid, passed |-> passed]

\* the record of one acquisition-level field that always passes
acquisition_field_record_passing(ref_acq_name, in_acq_name, fdef, in_acq) ==
    ReportRecord(PyStr(ref_acq_name), PyStr(in_acq_name), PyNone,
                 <<fdef.field>>,
                 PyStr(ConstraintText(fdef.value, fdef.tolerance, fdef.contains)),
                 PyNone, "Passed.", <<>>, TRUE)

\* the record _check_acquisition_fields appends for one field definition
acquisition_field_record(ref_acq_name, in_acq_name, fdef, in_acq) ==
    LET expected_value == fdef.value
        tolerance == fdef.tolerance
        contains == fdef.contains
        rec(expected, value, message, invalid, passed) ==
            ReportRecord(PyStr(ref_acq_name), PyStr(in_acq_name), PyNone,
                         <<fdef.field>>, PyStr(expected), value, message,
                         invalid, passed)
        constraint_text == ConstraintText(expected_value, tolerance, contains)
    IN  IF fdef.field \notin in_acq.cols
        THEN rec(constraint_text, PyNone, "Field not found in input session.",
                 <<>>, FALSE)
        ELSE
        LET actual_values == UniqueValues(in_acq, fdef.field)
            non_numeric == SelectSeq(actual_values, LAMBDA val : ~IsNumber(val))
            invalid_values ==
                SelectSeq(actual_values,
                          LAMBDA val : IsInvalidValue(val, expected_value,
                                                      tolerance, contains))
        IN  IF contains.t # "none" /\ invalid_values # <<>>
            THEN rec(ContainsText(contains),
                     PyList(actual_values), "Expected to contain",
                     invalid_values, FALSE)
            ELSE IF contains.t = "none" /\ tolerance.t # "none"
                    /\ non_numeric # <<>>
            THEN rec(ToleranceText(expected_value, tolerance),
                     PyList(actual_values), "Field must be numeric",
                     non_numeric, FALSE)
            ELSE IF contains.t = "none" /\ tolerance.t # "none"
                    /\ invalid_values # <<>>
            THEN rec(ToleranceText(expected_value, tolerance),
                     PyList(actual_values), "Invalid values found",
                     invalid_values, FALSE)
            ELSE IF contains.t = "none" /\ tolerance.t = "none"
                    /\ expected_value.t = "list" /\ invalid_values # <<>>
            THEN rec(ValueText(expected_value),
                     PyList(actual_values), "Expected list-based match",
                     invalid_values, FALSE)
            ELSE IF contains.t = "none" /\ tolerance.t = "none"
                    /\ expected_value.t \notin {"list", "none"}
                    /\ invalid_values # <<>>
            THEN rec(ValueText(expected_value),
                     PyList(actual_values), "Mismatched values",
                     invalid_values, FALSE)
            ELSE rec(constraint_text, PyList(actual_values), "Passed.",
                     <<>>, TRUE)

_check_acquisition_fields(ref_acq_name, in_acq_name, ref_fields, in_acq) ==
    [k \in 1..Len(ref_fields) |->
        acquisition_field_record(ref_acq_name, in_acq_name, ref_fields[k], in_acq)]

\* step 1 of _check_series_fields from field k on: rows is the set of row
\* numbers still matching; the result tells whether a field was missing
\* (and which) and which rows survive
RECURSIVE FilterSeriesRows(_, _, _, _)
FilterSeriesRows(in_acq, s_fields, k, rows) ==
    IF k > Len(s_fields) THEN [missing |-> 0, rows |-> rows]
    ELSE IF s_fields[k].field \notin in_acq.cols
    THEN [missing |-> k, rows |-> rows]
    ELSE LET kept == {i \in rows :
                         _row_passes_constraint(in_acq.rows[i][s_fields[k].field],
                                                s_fields[k].value,
                                                s_fields[k].tolerance,
                                                s_fields[k].contains)}
         IN  IF kept = {} THEN [missing |-> 0, rows |-> {}]
             ELSE FilterSeriesRows(in_acq, s_fields, k + 1, kept)

\* the short descriptor of the constraints of one series field
constraint_descriptor(fdef) ==
    LET value_piece ==
            IF fdef.value.t = "none" THEN <<>>
            ELSE IF fdef.tolerance.t # "none"
            THEN <<ToleranceText(fdef.value, fdef.tolerance)>>
            ELSE IF fdef.value.t = "list"
            THEN <<<<"v", "a", "l", "u", "e", "(", "l", "i", "s", "t", ")", "=">> \o FormatOf(fdef.value)>>
            ELSE <<ValueText(fdef.value)>>
        contains_piece ==
            IF fdef.contains.t = "none" THEN <<>>
            ELSE <<ContainsText(fdef.contains)>>
        constraint_pieces == value_piece \o contains_piece
    IN  IF constraint_pieces = <<>> THEN <<"(", "n", "o", "n", "e", ")">>
        ELSE JoinText(constraint_pieces, <<",", " ">>)

\* constraints_agg: the descriptors of the fields of a series, in order
constraints_agg(s_fields) ==
    PyList([k \in 1..Len(s_fields) |-> PyStr(constraint_descriptor(s_fields[k]))])

\* str(sdef['fields']): the list of the field definitions, each with the
\* keys it has (a key of a None value is taken to be absent)
FieldsRepr(s_fields) ==
    LET item(key, v) == <<"'">> \o key \o <<"'", ":", " ">> \o ReprOf(v)
        fdef_repr(fdef) ==
            <<"{">> \o JoinText(
                <<<<"'", "f", "i", "e", "l", "d", "'", ":", " ", "'">> \o <<fdef.field, "'">>>>
                \o (IF fdef.value.t = "none" THEN <<>>
                    ELSE <<item(<<"v", "a", "l", "u", "e">>, fdef.value)>>)
                \o (IF fdef.tolerance.t = "none" THEN <<>>
                    ELSE <<item(<<"t", "o", "l", "e", "r", "a", "n", "c", "e">>, fdef.tolerance)>>)
                \o (IF fdef.contains.t = "none" THEN <<>>
                    ELSE <<item(<<"c", "o", "n", "t", "a", "i", "n", "s">>, fdef.contains)>>),
                <<",", " ">>) \o <<"}">>
    IN  <<"[">> \o JoinText([k \in 1..Len(s_fields) |-> fdef_repr(s_fields[k])],
                            <<",", " ">>) \o <<"]">>

\* the record of one reference series when a series counts as found only if
\* every record of the input acquisition satisfies its constraints
series_record_all_rows(ref_acq_name, in_acq_name, sdef, in_acq) ==
    LET s_fields == sdef.fields
        field_names == [k \in 1..Len(s_fields) |-> s_fields[k].field]
        ok == /\ in_acq.rows # <<>>
              /\ \A k \in 1..Len(s_fields) :
                    /\ s_fields[k].field \in in_acq.cols
                    /\ \A i \in Idx(in_acq) :
                          _row_passes_constraint(in_acq.rows[i][s_fields[k].field],
                                                 s_fields[k].value,
                                                 s_fields[k].tolerance,
                                                 s_fields[k].contains)
    IN  IF ok
        THEN ReportRecord(PyStr(ref_acq_name), PyStr(in_acq_name),
                          PyStr(sdef.name), field_names,
                          constraints_agg(s_fields),
                          PyList([k \in 1..Len(s_fields) |->
                                     PyList(UniqueValues(in_acq, s_fields[k].field))]),
                          "Passed", <<>>, TRUE)
        ELSE ReportRecord(PyStr(ref_acq_name), PyStr(in_acq_name),
                          PyStr(sdef.name), field_names,
                          PyStr(FieldsRepr(s_fields)), PyNone,
                          "Series not found with the specified constraints.",
                          <<>>, FALSE)

\* the record _check_series_fields appends for one reference series
_check_series_fields(ref_acq_name, in_acq_name, sdef, in_acq) ==
    LET s_fields == sdef.fields
        field_names == [k \in 1..Len(s_fields) |-> s_fields[k].field]
        step1 == FilterSeriesRows(in_acq, s_fields, 1, Idx(in_acq))
        matching_df == SelectRows(in_acq, step1.rows)
        rec(field, expected, value, message, invalid, passed) ==
            ReportRecord(PyStr(ref_acq_name), PyStr(in_acq_name),
                         PyStr(sdef.name), field, expected, value, message,
                         invalid, passed)
    IN  IF step1.missing # 0
        THEN rec(<<s_fields[step1.missing].field>>,
                 PyStr(ConstraintText(s_fields[step1.missing].value,
                                      s_fields[step1.missing].tolerance,
                                      s_fields[step1.missing].contains)),
                 PyNone, "Field not found in input for series", <<>>, FALSE)
        ELSE IF step1.rows = {}
        THEN rec(field_names, PyStr(FieldsRepr(s_fields)), PyNone,
                 "Series not found with the specified constraints.", <<>>, FALSE)
        ELSE
        LET values(k) == UniqueValues(matching_df, s_fields[k].field)
            invalid(k) ==
                IF s_fields[k].contains.t = "none"
                   /\ s_fields[k].tolerance.t # "none"
                   /\ \E i \in 1..Len(values(k)) : ~IsNumber(values(k)[i])
                THEN SelectSeq(values(k), LAMBDA val : ~IsNumber(val))
                ELSE SelectSeq(values(k),
                               LAMBDA val : IsInvalidValue(val, s_fields[k].value,
                                                           s_fields[k].tolerance,
                                                           s_fields[k].contains))
            failing == {k \in 1..Len(s_fields) : invalid(k) # <<>>}
            actual_values_agg ==
                PyList([k \in 1..Len(s_fields) |->
                           PyList(values(k))])
        IN  IF failing # {}
            THEN rec(field_names, constraints_agg(s_fields), actual_values_agg,
                     "Failed", invalid(NthOf(failing, 1)), FALSE)
            ELSE rec(field_names, constraints_agg(s_fields), actual_values_agg,
                     "Passed", <<>>, TRUE)

\* the record for a reference acquisition that is no key of the session map
not_mapped_record(ref_acq_name) ==
    ReportRecord(PyStr(ref_acq_name), PyNone, PyNone, <<>>,
                 PyStr(<<"(", "m", "a", "p", "p", "e", "d", " ", "a", "c", "q", "u", "i", "s", "i", "t", "i", "o", "n", " ", "r", "e", "q", "u", "i", "r", "e", "d", ")">>),
                 PyNone, "not mapped.", <<>>, FALSE)

\* ref_acq_name in session_map.values()
IsMappedValue(session_map, ref_acq_name) ==
    \E k \in 1..Len(session_map) : session_map[k][2] = ref_acq_name

\* ref_acq_name in session_map
IsMapped(session_map, ref_acq_name) ==
    \E k \in 1..Len(session_map) : session_map[k][1] = ref_acq_name

\* ref_session["acquisitions"].get(ref_acq_name, {})
ReferenceAcquisition(refs, ref_acq_name) ==
    IF \E k \in 1..Len(refs) : refs[k].name = ref_acq_name
    THEN refs[CHOOSE k \in 1..Len(refs) : refs[k].name = ref_acq_name]
    ELSE [name |-> ref_acq_name, fields |-> <<>>, series |-> <<>>]

\* in_session[in_session["Acquisition"] == in_acq_name]
AcquisitionRows(df, in_acq_name) ==
    SelectRows(df, {i \in Idx(df) :
                       PyEq(df.rows[i]["Acquisition"], PyStr(in_acq_name))})

\* the records of one iteration of the loop over the session map
mapped_pair_records(df, refs, ref_acq_name, in_acq_name) ==
    LET ref_acq == ReferenceAcquisition(refs, ref_acq_name)
        in_acq == AcquisitionRows(df, in_acq_name)
    IN  _check_acquisition_fields(ref_acq_name, in_acq_name, ref_acq.fields, in_acq)
            \o [k \in 1..Len(ref_acq.series) |->
                   _check_series_fields(ref_acq_name, in_acq_name,
                                        ref_acq.series[k], in_acq)]

----------------------------------------------------------------------------
(* check_session_compliance_with_json_reference on bounded inputs *)

MaxCheckRecords == 2

CheckField == "RepetitionTime"
CheckInputNames == {<<"a", "1">>, <<"a", "2">>}
CheckValues == {PyFloat(1), PyFloat(3), NaN, PyStr(<<"a", "b">>)}

\* the rows of an input table: the first acquisition takes every value, the
\* second one value
CheckRows(withField) ==
    IF withField
    THEN {[c \in {"Acquisition", CheckField} |->
             IF c = "Acquisition" THEN PyStr(<<"a", "1">>) ELSE v] :
             v \in CheckValues}
         \cup {[c \in {"Acquisition", CheckField} |->
                  IF c = "Acquisition" THEN PyStr(<<"a", "2">>) ELSE PyFloat(1)]}
    ELSE {[c \in {"Acquisition"} |-> PyStr(n)] : n \in CheckInputNames}

Constraint(f, v, t, c) ==
    [field |-> f, value |-> v, tolerance |-> t, contains |-> c]

\* a value, a value with a tolerance, a contains text, a list value, and a
\* field definition with no constraint
CheckConstraints ==
    {Constraint(CheckField, PyFloat(1), PyNone, PyNone),
     Constraint(CheckField, PyFloat(2), PyFloat(1), PyNone),
     Constraint(CheckField, PyNone, PyNone, PyStr(<<"a">>)),
     Constraint(CheckField, PyList(<<PyFloat(1)>>), PyNone, PyNone),
     Constraint(CheckField, PyNone, PyNone, PyNone)}

\* no field, one constraint, or two, the second on a field no table has
CheckFieldLists ==
    {<<>>} \cup {<<c>> : c \in CheckConstraints}
        \cup {<<c, Constraint("EchoTime", PyFloat(1), PyNone, PyNone)>> :
                 c \in {Constraint(CheckField, PyFloat(1), PyNone, PyNone),
                        Constraint(CheckField, PyNone, PyNone, PyStr(<<"a">>))}}

CheckSeriesLists ==
    {<<>>,
     <<[name |-> <<"S", "1">>,
        fields |-> <<Constraint(CheckField, PyFloat(1), PyNone, PyNone)>>]>>}

CheckReferences ==
    LET first == {[name |-> <<"r", "1">>, fields |-> fs, series |-> ss] :
                     fs \in CheckFieldLists,
                     ss \in CheckSeriesLists}
        second == [name |-> <<"r", "2">>,
                   fields |-> <<Constraint(CheckField, PyFloat(1), PyNone, PyNone)>>,
                   series |-> <<>>]
    IN  {<<a>> : a \in first} \cup {<<a, second>> : a \in first}

\* session maps: empty, partial, complete in either order, and one with a
\* key that names no reference acquisition
CheckSessionMaps ==
    {<<>>,
     <<<< <<"r", "1">>, <<"a", "1">> >>>>,
     <<<< <<"r", "2">>, <<"a", "1">> >>>>,
     <<<< <<"r", "1">>, <<"a", "1">> >>, << <<"r", "2">>, <<"a", "2">> >>>>,
     <<<< <<"r", "2">>, <<"a", "2">> >>, << <<"r", "1">>, <<"a", "1">> >>>>,
     <<<< <<"r", "3">>, <<"a", "2">> >>>>}

InitCompliance ==
    /\ pc = "check_unmapped"
    /\ cursor = 1
    /\ \E withField \in BOOLEAN, k \in 0..MaxCheckRecords :
         \E rows \in [1..k -> CheckRows(withField)] :
            session_df = [cols |-> IF withField THEN {"Acquisition", CheckField}
                                   ELSE {"Acquisition"},
                          rows |-> rows]
    /\ ref_session \in CheckReferences
    /\ mapping \in CheckSessionMaps
    /\ compliance_summary = <<>>
    /\ out_df = EmptyTable
    /\ raised = FALSE
    /\ score_args = <<>>
    /\ score = 0
    /\ in_session = <<>>
    /\ schema = <<>>
    /\ wire = <<>>
    /\ ref_models = <<>>
    /\ raise_errors = FALSE
    /\ validation = <<>>
    /\ caller_before = <<>>
    /\ MenuIdle

\* one iteration of the loop over the reference acquisitions
CheckUnmapped ==
    /\ pc = "check_unmapped"
    /\ cursor <= Len(ref_session)
    /\ compliance_summary' =
          IF IsMapped(mapping, ref_session[cursor].name)
          THEN compliance_summary
          ELSE Append(compliance_summary, not_mapped_record(ref_session[cursor].name))
    /\ cursor' = cursor + 1
    /\ UNCHANGED <<pc, session_df, out_df, raised, score_args, score,
                   in_session, ref_session, mapping, schema, wire,
                   ref_models, raise_errors, validation,
                   caller_before,
                   reverse_mapping, selected_ref_idx, selected_input_idx,
                   initial_mapping>>

\* the first loop is over: on to the loop over the session map
BeginMapped ==
    /\ pc = "check_unmapped"
    /\ cursor > Len(ref_session)
    /\ pc' = "check_mapped"
    /\ cursor' = 1
    /\ UNCHANGED <<session_df, out_df, raised, score_args, score, in_session,
                   ref_session, mapping, compliance_summary, schema, wire,
                   ref_models, raise_errors, validation,
                   caller_before,
                   reverse_mapping, selected_ref_idx, selected_input_idx,
                   initial_mapping>>

\* one iteration of the loop over the items of the session map
CheckMapped ==
    /\ pc = "check_mapped"
    /\ cursor <= Len(mapping)
    /\ compliance_summary' =
          compliance_summary \o
              mapped_pair_records(session_df, ref_session,
                                  mapping[cursor][1], mapping[cursor][2])
    /\ cursor' = cursor + 1
    /\ UNCHANGED <<pc, session_df, out_df, raised, score_args, score,
                   in_session, ref_session, mapping, schema, wire,
                   ref_models, raise_errors, validation,
                   caller_before,
                   reverse_mapping, selected_ref_idx, selected_input_idx,
                   initial_mapping>>

ReturnSummary ==
    /\ pc = "check_mapped"
    /\ cursor > Len(mapping)
    /\ pc' = "check_done"
    /\ UNCHANGED <<session_df, out_df, raised, score_args, score, in_session,
                   ref_session, mapping, compliance_summary, cursor, schema, wire,
                   ref_models, raise_errors, validation,
                   caller_before,
                   reverse_mapping, selected_ref_idx, selected_input_idx,
                   initial_mapping>>

NextCompliance == CheckUnmapped \/ BeginMapped \/ CheckMapped \/ ReturnSummary

SpecCompliance == InitCompliance /\ [][NextCompliance]_vars

IsNotMappedRecord(r) == r.message = "not mapped."

\* C9: for each reference acquisition that is no key of the session map the
\* report has exactly one failing "not mapped" record (and none for a key of
\* the map), and these records precede every record of a mapped pair; none
\* is emitted once the mapped pairs are being processed.
C9_UnmappedFirst ==
    /\ \A i, j \in 1..Len(compliance_summary) :
          (IsNotMappedRecord(compliance_summary[i])
             /\ ~IsNotMappedRecord(compliance_summary[j])) => i < j
    /\ \A i \in 1..Len(compliance_summary) :
          IsNotMappedRecord(compliance_summary[i]) =>
              /\ ~compliance_summary[i].passed
              /\ compliance_summary[i].inp = PyNone
    /\ pc = "check_unmapped" =>
          \A i \in 1..Len(compliance_summary) :
              IsNotMappedRecord(compliance_summary[i])
    /\ pc \in {"check_mapped", "check_done"} =>
          \A k \in 1..Len(ref_session) :
              Cardinality({i \in 1..Len(compliance_summary) :
                              /\ IsNotMappedRecord(compliance_summary[i])
                              /\ compliance_summary[i].ref = PyStr(ref_session[k].name)})
                  = IF \E m \in 1..Len(mapping) : mapping[m][1] = ref_session[k].name
                    THEN 0 ELSE 1

\* a finished report with a "not mapped" record followed by the records of
\* a mapped pair
C9_Witness ==
    /\ pc = "check_done"
    /\ Len(compliance_summary) >= 2
    /\ IsNotMappedRecord(compliance_summary[1])
    /\ ~IsNotMappedRecord(compliance_summary[Len(compliance_summary)])

\* the acquisition-level records of the m-th item of the session map
PairAcquisitionRecords(m) ==
    SelectSeq(compliance_summary,
              LAMBDA r : /\ r.ref = PyStr(mapping[m][1])
                         /\ r.inp = PyStr(mapping[m][2])
                         /\ r.series = PyNone)

\* C10: in the finished report every mapped pair has exactly one record with
\* series = null per acquisition-level field constraint, in the order of the
\* constraints; the record fails when the field is no column of the input,
\* fails when the value of some record of the mapped input acquisition does
\* not satisfy the constraint, and passes otherwise.
C10_AcquisitionPhase ==
    pc = "check_done" =>
        \A m \in 1..Len(mapping) :
            LET ref_fields == ReferenceAcquisition(ref_session, mapping[m][1]).fields
                in_acq == AcquisitionRows(session_df, mapping[m][2])
                recs == PairAcquisitionRecords(m)
            IN  /\ Len(recs) = Len(ref_fields)
                /\ \A f \in 1..Len(ref_fields) :
                      /\ recs[f].field = <<ref_fields[f].field>>
                      /\ recs[f].passed <=>
                            /\ ref_fields[f].field \in session_df.cols
                            /\ \A i \in Idx(in_acq) :
                                  _row_passes_constraint(
                                      in_acq.rows[i][ref_fields[f].field],
                                      ref_fields[f].value,
                                      ref_fields[f].tolerance,
                                      ref_fields[f].contains)

\* a mapped acquisition with two distinct values of a constrained field, one
\* satisfying the constraint and one not: one failing record naming the
\* violating value, followed by the failing record of an absent field
C10_Witness ==
    /\ pc = "check_done"
    /\ \E m \in 1..Len(mapping) :
          LET recs == PairAcquisitionRecords(m)
          IN  /\ Len(recs) = 2
              /\ ~recs[1].passed
              /\ recs[1].value.t = "list"
              /\ Len(recs[1].value.l) = 2
              /\ Len(recs[1].invalid) = 1
              /\ recs[2].message = "Field not found in input session."

----------------------------------------------------------------------------
(* Schema generation: dicompare/generate_schema.py *)

\* a < b in sort_values and in groupby(dropna=False): nulls come last
NullsLastLess(a, b) ==
    IF IsNull(a) THEN FALSE
    ELSE IF IsNull(b) THEN TRUE
    ELSE ValLess(a, b)

RECURSIVE SortKeyLess(_, _)
SortKeyLess(a, b) ==
    IF a = <<>> \/ b = <<>> THEN FALSE
    ELSE IF SameCell(Head(a), Head(b)) THEN SortKeyLess(Tail(a), Tail(b))
    ELSE NullsLastLess(Head(a), Head(b))

RECURSIVE SameKey(_, _)
SameKey(a, b) ==
    \/ a = <<>> /\ b = <<>>
    \/ /\ a # <<>> /\ b # <<>>
       /\ SameCell(Head(a), Head(b))
       /\ SameKey(Tail(a), Tail(b))

\* every cell made hashable, and the rows sorted (stably) by Acquisition and
\* the reference fields
standardize_session_dataframe(df, reference_fields) ==
    LET hashed == [cols |-> df.cols,
                   rows |-> [i \in Idx(df) |->
                               [c \in df.cols |-> make_hashable(df.rows[i][c])]]]
        sort_fields == <<"Acquisition">> \o FieldsPresent(reference_fields, df.cols)
        key(i) == RowKey(hashed, i, sort_fields)
        before(j, i) == SortKeyLess(key(j), key(i))
                           \/ (~SortKeyLess(key(i), key(j)) /\ j < i)
        place(i) == 1 + Cardinality({j \in Idx(hashed) : before(j, i)})
    IN  [cols |-> hashed.cols,
         rows |-> [k \in Idx(hashed) |->
                      hashed.rows[CHOOSE i \in Idx(hashed) : place(i) = k]]]

\* "Series i"
SeriesName(i) == <<"S", "e", "r", "i", "e", "s", " ">> \o StrInt(i)

\* group[field].dropna().unique()
UniqueNonNull(group, field) ==
    UniqueValues(SelectRows(group, {i \in Idx(group) : ~IsNull(group.rows[i][field])}),
                 field)

\* [f for f in fields if test(f)], by the number of distinct non-null values
RECURSIVE ConstantFields(_, _)
ConstantFields(group, fields) ==
    IF fields = <<>> THEN <<>>
    ELSE (IF Len(UniqueNonNull(group, Head(fields))) = 1
          THEN <<Head(fields)>> ELSE <<>>) \o ConstantFields(group, Tail(fields))

RECURSIVE VaryingFields(_, _)
VaryingFields(group, fields) ==
    IF fields = <<>> THEN <<>>
    ELSE (IF Len(UniqueNonNull(group, Head(fields))) # 1
          THEN <<Head(fields)>> ELSE <<>>) \o VaryingFields(group, Tail(fields))

\* the keys of group.groupby(varying_fields, dropna=False) in sorted order
SeriesKeys(group, varying_fields) ==
    LET firsts == {i \in Idx(group) :
                      \A j \in 1..(i - 1) :
                          ~SameKey(RowKey(group, j, varying_fields),
                                   RowKey(group, i, varying_fields))}
        key(i) == RowKey(group, i, varying_fields)
        place(i) == 1 + Cardinality({j \in firsts : SortKeyLess(key(j), key(i))})
    IN  [k \in 1..Cardinality(firsts) |->
            key(CHOOSE i \in firsts : place(i) = k)]

\* the entry create_json_schema builds for the records of one acquisition
acquisition_entry(group, reference_fields) ==
    LET constant == ConstantFields(group, reference_fields)
        varying_fields == VaryingFields(group, reference_fields)
        keys == SeriesKeys(group, varying_fields)
    IN  [fields |-> [k \in 1..Len(constant) |->
                        Constraint(constant[k], UniqueNonNull(group, constant[k])[1],
                                   PyNone, PyNone)],
         series |-> IF varying_fields = <<>> THEN <<>>
                    ELSE [i \in 1..Len(keys) |->
                            [name |-> SeriesName(i),
                             fields |-> [j \in 1..Len(varying_fields) |->
                                            Constraint(varying_fields[j], keys[i][j],
                                                       PyNone, PyNone)]]]]

\* the acquisition names df.groupby("Acquisition") yields, in sorted order
AcquisitionNames(df) ==
    LET names == {df.rows[i]["Acquisition"].s :
                     i \in {x \in Idx(df) : ~IsNull(df.rows[x]["Acquisition"])}}
    IN  [k \in 1..Cardinality(names) |->
            CHOOSE n \in names : Cardinality({x \in names : StrLess(x, n)}) = k - 1]

\* json_schema["acquisitions"][key] = entry
RECURSIVE StoreEntries(_, _)
StoreEntries(acquisitions, entries) ==
    IF entries = <<>> THEN acquisitions
    ELSE LET e == Head(entries)
         IN  StoreEntries(
                 IF \E k \in 1..Len(acquisitions) : acquisitions[k].name = e.name
                 THEN [k \in 1..Len(acquisitions) |->
                          IF acquisitions[k].name = e.name THEN e ELSE acquisitions[k]]
                 ELSE Append(acquisitions, e),
                 Tail(entries))

\* [raised, schema]: the acquisitions of the schema in dictionary order, or
\* raised for an empty table or an empty field list
create_json_schema(session, reference_fields) ==
    IF session.rows = <<>> \/ reference_fields = <<>>
    THEN [raised |-> TRUE, schema |-> <<>>]
    ELSE LET df == standardize_session_dataframe(session, reference_fields)
             names == AcquisitionNames(df)
             entry(k) == acquisition_entry(AcquisitionRows(df, names[k]),
                                           reference_fields)
         IN  [raised |-> FALSE,
              schema |-> StoreEntries(<<>>,
                            [k \in 1..Len(names) |->
                                [name |-> clean_string(names[k]),
                                 fields |-> entry(k).fields,
                                 series |-> entry(k).series]])]

----------------------------------------------------------------------------
(* A schema built from a session and the session checked against it *)

MaxSchemaRecords == 2

SchemaFields == <<"RepetitionTime", "EchoTime">>
SchemaAcquisitions == {<<"a", "-", "1">>, <<"a", "-", "2">>}
SchemaValues == {PyFloat(1), PyFloat(2), NaN}

SchemaRows ==
    {[c \in {"Acquisition", "RepetitionTime", "EchoTime"} |->
         IF c = "Acquisition" THEN PyStr(n)
         ELSE IF c = "RepetitionTime" THEN tr ELSE te] :
        n \in SchemaAcquisitions, tr \in SchemaValues, te \in SchemaValues}

InitSelfMatch ==
    /\ pc = "schema_call"
    /\ \E k \in 0..MaxSchemaRecords :
         \E rows \in [1..k -> SchemaRows] :
            session_df = [cols |-> {"Acquisition", "RepetitionTime", "EchoTime"},
                          rows |-> rows]
    /\ schema = <<>>
    /\ ref_session = <<>>
    /\ mapping = <<>>
    /\ compliance_summary = <<>>
    /\ cursor = 0
    /\ out_df = EmptyTable
    /\ raised = FALSE
    /\ score_args = <<>>
    /\ score = 0
    /\ in_session = <<>>
    /\ wire = <<>>
    /\ ref_models = <<>>
    /\ raise_errors = FALSE
    /\ validation = <<>>
    /\ caller_before = <<>>
    /\ MenuIdle

CreateJsonSchema ==
    /\ pc = "schema_call"
    /\ LET r == create_json_schema(session_df, SchemaFields)
       IN  /\ raised' = r.raised
           /\ schema' = r.schema
           /\ pc' = IF r.raised THEN "schema_raised" ELSE "schema_done"
    /\ UNCHANGED <<session_df, out_df, score_args, score, in_session,
                   ref_session, mapping, compliance_summary, cursor, wire,
                   ref_models, raise_errors, validation,
                   caller_before,
                   reverse_mapping, selected_ref_idx, selected_input_idx,
                   initial_mapping>>

\* the acquisition a generated acquisition was built from: the last one, in
\* the order of generation, that has its name
SourceAcquisition(df, generated) ==
    LET names == AcquisitionNames(df)
        last == CHOOSE k \in 1..Len(names) :
                    /\ clean_string(names[k]) = generated
                    /\ \A j \in (k + 1)..Len(names) : clean_string(names[j]) # generated
    IN  names[last]

\* the check of the session against its own schema is set up: each
\* generated acquisition is mapped to the acquisition it was built from
BeginSelfCheck ==
    /\ pc = "schema_done"
    /\ ref_session' = schema
    /\ mapping' = [k \in 1..Len(schema) |->
                      <<schema[k].name, SourceAcquisition(session_df, schema[k].name)>>]
    /\ compliance_summary' = <<>>
    /\ cursor' = 1
    /\ pc' = "check_unmapped"
    /\ UNCHANGED <<session_df, out_df, raised, score_args, score, in_session,
                   schema, wire,
                   ref_models, raise_errors, validation,
                   caller_before,
                   reverse_mapping, selected_ref_idx, selected_input_idx,
                   initial_mapping>>

NextSelfMatch ==
    \/ CreateJsonSchema
    \/ BeginSelfCheck
    \/ CheckUnmapped
    \/ BeginMapped
    \/ CheckMapped
    \/ ReturnSummary

SpecSelfMatch == InitSelfMatch /\ [][NextSelfMatch]_vars

\* C7: the report of a session checked against the schema built from it has
\* no failing record.
C7_SelfMatch ==
    pc = "check_done" =>
        \A i \in 1..Len(compliance_summary) : compliance_summary[i].passed

----------------------------------------------------------------------------
(* The JSON wire format of a schema: dicompare/web_utils.py (writer),       *)
(* dicompare/io.py and dicompare/io/json.py (loaders).  A JSON value is a   *)
(* node [k, text, items]: null, true, false, a number or a string with its  *)
(* text, or an array with its items.                                        *)

JsonNode(k, text, items) == [k |-> k, text |-> text, items |-> items]

\* pandas/numpy values made plain: a tuple becomes a list, nan becomes None
RECURSIVE make_json_serializable(_)
make_json_serializable(v) ==
    IF IsSeqValue(v)
    THEN PyList([i \in 1..Len(v.l) |-> make_json_serializable(v.l[i])])
    ELSE IF IsNull(v) THEN PyNone
    ELSE v

\* json.dumps of a value
RECURSIVE json_dumps(_)
json_dumps(v) ==
    CASE v.t = "none" -> JsonNode("null", <<>>, <<>>)
      [] v.t = "bool" -> JsonNode(IF v.n = 1 THEN "true" ELSE "false", <<>>, <<>>)
      [] v.t = "int" -> JsonNode("number", StrInt(v.n), <<>>)
      [] v.t = "float" -> JsonNode("number", StrInt(v.n) \o <<".", "0">>, <<>>)
      [] v.t = "nan" -> JsonNode("number", <<"N", "a", "N">>, <<>>)
      [] v.t = "str" -> JsonNode("string", v.s, <<>>)
      [] OTHER -> JsonNode("array", <<>>, [i \in 1..Len(v.l) |-> json_dumps(v.l[i])])

DigitValue(c) == (CHOOSE i \in 1..Len(Digits) : Digits[i] = c) - 1

\* int(text) for a run of digits
RECURSIVE ParseNat(_)
ParseNat(text) ==
    IF text = <<>> THEN 0
    ELSE ParseNat(SubSeq(text, 1, Len(text) - 1)) * 10 + DigitValue(text[Len(text)])

ParseInt(text) ==
    IF text # <<>> /\ Head(text) = "-" THEN 0 - ParseNat(Tail(text))
    ELSE ParseNat(text)

\* the number a JSON number text stands for: a float when the text has a
\* fraction (always ".0" in the model), else an int
ParseNumber(text) ==
    IF text = <<"N", "a", "N">> THEN NaN
    ELSE IF \E i \in 1..Len(text) : text[i] = "."
    THEN PyFloat(ParseInt(SubSeq(text, 1,
                     (CHOOSE i \in 1..Len(text) : text[i] = ".") - 1)))
    ELSE PyInt(ParseInt(text))

\* json.loads of a value
RECURSIVE json_loads(_)
json_loads(j) ==
    CASE j.k = "null" -> PyNone
      [] j.k = "true" -> PyBool(TRUE)
      [] j.k = "false" -> PyBool(FALSE)
      [] j.k = "number" -> ParseNumber(j.text)
      [] j.k = "string" -> PyStr(j.text)
      [] OTHER -> PyList([i \in 1..Len(j.items) |-> json_loads(j.items[i])])

\* every int and float (and so every bool) of the data becomes a float
RECURSIVE normalize_numeric_values(_)
normalize_numeric_values(data) ==
    IF data.t = "list"
    THEN PyList([i \in 1..Len(data.l) |-> normalize_numeric_values(data.l[i])])
    ELSE IF data.t \in {"int", "float", "bool"} THEN PyFloat(data.n)
    ELSE data

\* the field entries of a schema written out
DumpFields(fields) ==
    [k \in 1..Len(fields) |->
        [field |-> fields[k].field,
         value |-> json_dumps(make_json_serializable(fields[k].value)),
         tolerance |-> json_dumps(make_json_serializable(fields[k].tolerance)),
         contains |-> json_dumps(make_json_serializable(fields[k].contains))]]

\* json.dumps(make_json_serializable(schema)): the acquisitions in order
DumpSchema(acquisitions) ==
    [a \in 1..Len(acquisitions) |->
        [name |-> acquisitions[a].name,
         fields |-> DumpFields(acquisitions[a].fields),
         series |-> [i \in 1..Len(acquisitions[a].series) |->
                        [name |-> acquisitions[a].series[i].name,
                         fields |-> DumpFields(acquisitions[a].series[i].fields)]]]]

\* normalize_numeric_values(json.load(f)) on the field entries
LoadFields(fields) ==
    [k \in 1..Len(fields) |->
        [field |-> fields[k].field,
         value |-> normalize_numeric_values(json_loads(fields[k].value)),
         tolerance |-> normalize_numeric_values(json_loads(fields[k].tolerance)),
         contains |-> normalize_numeric_values(json_loads(fields[k].contains))]]

\* process_fields keeping field, value and tolerance only
process_fields_without_contains(fields) ==
    [k \in 1..Len(fields) |->
        [field |-> fields[k].field, value |-> fields[k].value,
         tolerance |-> fields[k].tolerance, contains |-> PyNone]]

\* process_fields: field, value, tolerance and contains of every entry
process_fields(fields) ==
    [k \in 1..Len(fields) |->
        [field |-> fields[k].field, value |-> fields[k].value,
         tolerance |-> fields[k].tolerance, contains |-> fields[k].contains]]

\* the acquisitions load_json_schema returns
load_json_schema(file) ==
    [a \in 1..Len(file) |->
        [name |-> file[a].name,
         fields |-> LoadFields(file[a].fields),
         series |-> [i \in 1..Len(file[a].series) |->
                        [name |-> file[a].series[i].name,
                         fields |-> LoadFields(file[a].series[i].fields)]]]]

\* the acquisitions read_json_session returns
read_json_session(file) ==
    [a \in 1..Len(file) |->
        [name |-> file[a].name,
         fields |-> process_fields(LoadFields(file[a].fields)),
         series |-> [i \in 1..Len(file[a].series) |->
                        [name |-> file[a].series[i].name,
                         fields |-> process_fields(
                                       LoadFields(file[a].series[i].fields))]]]]

----------------------------------------------------------------------------
(* A schema written and loaded again *)

MaxJsonNumber == 12

\* the values of the wire format: numbers, strings, lists of them, and no
\* value
JsonValues ==
    {PyNone, PyInt(0), PyInt(MaxJsonNumber), PyInt(0 - MaxJsonNumber),
     PyFloat(MaxJsonNumber), PyStr(<<>>), PyStr(<<"a", "1">>),
     PyList(<<>>), PyList(<<PyInt(1), PyStr(<<"a">>), PyFloat(2)>>)}
JsonTolerances == {PyNone, PyInt(1), PyFloat(MaxJsonNumber)}
JsonContains == {PyNone, PyStr(<<"a">>)}

JsonFieldLists ==
    {<<>>} \cup {<<Constraint("RepetitionTime", v, t, c)>> :
                    v \in JsonValues, t \in JsonTolerances, c \in JsonContains}

JsonSeriesLists ==
    {<<>>} \cup {<<[name |-> SeriesName(1),
                    fields |-> <<Constraint("EchoTime", v, PyNone, PyNone)>>]>> :
                    v \in JsonValues}

JsonSchemas ==
    LET first == {[name |-> <<"t", "1">>, fields |-> fs, series |-> ss] :
                     fs \in JsonFieldLists, ss \in JsonSeriesLists}
        second == [name |-> <<"t", "2">>, fields |-> <<>>, series |-> <<>>]
    IN  {<<a>> : a \in first} \cup {<<a, second>> : a \in first}

InitJson ==
    /\ pc = "json_write"
    /\ schema \in JsonSchemas
    /\ wire = <<>>
    /\ ref_models = <<>>
    /\ raise_errors = FALSE
    /\ validation = <<>>
    /\ caller_before = <<>>
    /\ MenuIdle
    /\ ref_session = <<>>
    /\ session_df = EmptyTable
    /\ out_df = EmptyTable
    /\ raised = FALSE
    /\ score_args = <<>>
    /\ score = 0
    /\ in_session = <<>>
    /\ mapping = <<>>
    /\ compliance_summary = <<>>
    /\ cursor = 0

WriteSchema ==
    /\ pc = "json_write"
    /\ wire' = DumpSchema(schema)
    /\ pc' = "json_written"
    /\ UNCHANGED <<session_df, out_df, raised, score_args, score, in_session,
                   ref_session, mapping, compliance_summary, cursor, schema,
                   ref_models, raise_errors, validation,
                   caller_before,
                   reverse_mapping, selected_ref_idx, selected_input_idx,
                   initial_mapping>>

LoadJsonSchema ==
    /\ pc = "json_written"
    /\ ref_session' = load_json_schema(wire)
    /\ pc' = "json_loaded"
    /\ UNCHANGED <<session_df, out_df, raised, score_args, score, in_session,
                   mapping, compliance_summary, cursor, schema, wire,
                   ref_models, raise_errors, validation,
                   caller_before,
                   reverse_mapping, selected_ref_idx, selected_input_idx,
                   initial_mapping>>

ReadJsonSession ==
    /\ pc = "json_written"
    /\ ref_session' = read_json_session(wire)
    /\ pc' = "json_loaded"
    /\ UNCHANGED <<session_df, out_df, raised, score_args, score, in_session,
                   mapping, compliance_summary, cursor, schema, wire,
                   ref_models, raise_errors, validation,
                   caller_before,
                   reverse_mapping, selected_ref_idx, selected_input_idx,
                   initial_mapping>>

NextJson == WriteSchema \/ LoadJsonSchema \/ ReadJsonSession

SpecJson == InitJson /\ [][NextJson]_vars

\* the same field entries: names equal, values, tolerances and contains
\* elements equal as values (numbers by their numeric value)
SameFields(a, b) ==
    /\ Len(a) = Len(b)
    /\ \A k \in 1..Len(a) :
          /\ a[k].field = b[k].field
          /\ PyEq(a[k].value, b[k].value)
          /\ PyEq(a[k].tolerance, b[k].tolerance)
          /\ PyEq(a[k].contains, b[k].contains)

----------------------------------------------------------------------------
(* the series-level phase on bounded inputs: one reference acquisition with *)
(* up to two series over the fields SliceThickness and EchoTime             *)

MaxSeriesRecords == 3

\* the rows of an input table: acquisition a1 takes every combination of
\* values, acquisition a2 one
SeriesRows(withEcho) ==
    LET cols == IF withEcho THEN {"Acquisition", "SliceThickness", "EchoTime"}
                ELSE {"Acquisition", "SliceThickness"}
        row(a, st, et) == [c \in cols |->
                              IF c = "Acquisition" THEN PyStr(a)
                              ELSE IF c = "SliceThickness" THEN st ELSE et]
    IN  {row(<<"a", "1">>, st, et) :
            st \in {PyFloat(1), PyFloat(3)}, et \in {PyFloat(1), PyFloat(2)}}
        \cup {row(<<"a", "2">>, PyFloat(1), PyFloat(1))}

\* SliceThickness 1.0 with tolerance 0, EchoTime 2.0, and an unconstrained
\* field definition
SeriesConstraints ==
    {Constraint("SliceThickness", PyFloat(1), PyFloat(0), PyNone),
     Constraint("EchoTime", PyFloat(2), PyNone, PyNone),
     Constraint("SliceThickness", PyNone, PyNone, PyNone)}

SeriesFieldLists ==
    {<<>>} \cup {<<c>> : c \in SeriesConstraints}
        \cup {<<c, d>> : c, d \in SeriesConstraints}

SeriesDefinitions ==
    {<<>>}
    \cup {<<[name |-> <<"S", "1">>, fields |-> fs]>> : fs \in SeriesFieldLists}
    \cup {<<[name |-> <<"S", "1">>, fields |-> fs],
            [name |-> <<"S", "2">>, fields |-> gs]>> :
             fs \in {<<c>> : c \in SeriesConstraints},
             gs \in {<<c>> : c \in SeriesConstraints}}

\* the session map: empty, r1 to a1, or r1 to an acquisition with no record
SeriesSessionMaps ==
    {<<>>,
     <<<< <<"r", "1">>, <<"a", "1">> >>>>,
     <<<< <<"r", "1">>, <<"a", "3">> >>>>}

InitSeries ==
    /\ pc = "check_unmapped"
    /\ cursor = 1
    /\ \E withEcho \in BOOLEAN, k \in 0..MaxSeriesRecords :
         \E rows \in [1..k -> SeriesRows(withEcho)] :
            session_df =
                [cols |-> IF withEcho
                          THEN {"Acquisition", "SliceThickness", "EchoTime"}
                          ELSE {"Acquisition", "SliceThickness"},
                 rows |-> rows]
    /\ \E ss \in SeriesDefinitions :
          ref_session = <<[name |-> <<"r", "1">>, fields |-> <<>>, series |-> ss]>>
    /\ mapping \in SeriesSessionMaps
    /\ compliance_summary = <<>>
    /\ out_df = EmptyTable
    /\ raised = FALSE
    /\ score_args = <<>>
    /\ score = 0
    /\ in_session = <<>>
    /\ schema = <<>>
    /\ wire = <<>>
    /\ ref_models = <<>>
    /\ raise_errors = FALSE
    /\ validation = <<>>
    /\ caller_before = <<>>
    /\ MenuIdle

NextSeries == CheckUnmapped \/ BeginMapped \/ CheckMapped \/ ReturnSummary

SpecSeries == InitSeries /\ [][NextSeries]_vars

\* the series-level records of the m-th item of the session map
PairSeriesRecords(m) ==
    SelectSeq(compliance_summary,
              LAMBDA r : /\ r.ref = PyStr(mapping[m][1])
                         /\ r.inp = PyStr(mapping[m][2])
                         /\ r.series # PyNone)

\* some record of in_acq satisfies every field constraint of the series
SomeRowSatisfiesAll(in_acq, s_fields) ==
    \E i \in Idx(in_acq) :
        \A k \in 1..Len(s_fields) :
            /\ s_fields[k].field \in in_acq.cols
            /\ _row_passes_constraint(in_acq.rows[i][s_fields[k].field],
                                      s_fields[k].value,
                                      s_fields[k].tolerance,
                                      s_fields[k].contains)

\* C11: in the finished report every mapped pair has exactly one record per
\* reference series, in the order of the series and carrying its name; the
\* record passes exactly when some record of the mapped input acquisition
\* satisfies every field constraint of the series at once, and otherwise it
\* is a failing record without a value, either "series not found" or the
\* missing-field record.
C11_SeriesPhase ==
    pc = "check_done" =>
        \A m \in 1..Len(mapping) :
            LET ref_series == ReferenceAcquisition(ref_session, mapping[m][1]).series
                in_acq == AcquisitionRows(session_df, mapping[m][2])
                recs == PairSeriesRecords(m)
            IN  /\ Len(recs) = Len(ref_series)
                /\ \A s \in 1..Len(ref_series) :
                      /\ recs[s].series = PyStr(ref_series[s].name)
                      /\ recs[s].passed
                            <=> SomeRowSatisfiesAll(in_acq, ref_series[s].fields)
                      /\ ~recs[s].passed =>
                            /\ recs[s].value = PyNone
                            /\ recs[s].message \in
                                  {"Series not found with the specified constraints.",
                                   "Field not found in input for series"}

\* SliceThickness values 1.0, 1.0, 3.0 against 1.0 with tolerance 0: the
\* series is found and its record lists the surviving value only
C11_Witness ==
    /\ pc = "check_done"
    /\ Len(mapping) = 1
    /\ NRows(AcquisitionRows(session_df, mapping[1][2])) = 3
    /\ \E i \in Idx(session_df) :
          session_df.rows[i]["SliceThickness"] = PyFloat(3)
    /\ \E s \in 1..Len(PairSeriesRecords(1)) :
          LET r == PairSeriesRecords(1)[s]
          IN  /\ r.passed
              /\ r.field = <<"SliceThickness">>
              /\ r.value = PyList(<<PyList(<<PyFloat(1)>>)>>)

----------------------------------------------------------------------------
(* an acquisition-level tolerance constraint on RepetitionTime *)

MaxToleranceRecords == 3

\* observed values: inside the range, on its edges, just outside, far
\* outside, nan and a text
ToleranceValues ==
    {PyInt(2000),
     PyInt(2200),
     PyFloat(2300),
     PyInt(2400),
     PyInt(2401),
     NaN, PyStr(<<"a", "b">>)}

ToleranceRows ==
    {[c \in {"Acquisition", "RepetitionTime"} |->
         IF c = "Acquisition" THEN PyStr(<<"a", "1">>) ELSE v] :
         v \in ToleranceValues}
    \cup {[c \in {"Acquisition", "RepetitionTime"} |->
             IF c = "Acquisition" THEN PyStr(<<"a", "2">>)
             ELSE PyInt(2300)]}

ToleranceConstraints ==
    {Constraint("RepetitionTime", c, t, PyNone) :
        c \in {PyInt(2300), PyFloat(2300)},
        t \in {PyInt(100), PyInt(0)}}

InitTolerance ==
    /\ pc = "check_unmapped"
    /\ cursor = 1
    /\ \E k \in 0..MaxToleranceRecords :
         \E rows \in [1..k -> ToleranceRows] :
            session_df = [cols |-> {"Acquisition", "RepetitionTime"},
                          rows |-> rows]
    /\ \E c \in ToleranceConstraints :
          ref_session = <<[name |-> <<"r", "1">>, fields |-> <<c>>,
                           series |-> <<>>]>>
    /\ mapping \in {<<>>, <<<< <<"r", "1">>, <<"a", "1">> >>>>}
    /\ compliance_summary = <<>>
    /\ out_df = EmptyTable
    /\ raised = FALSE
    /\ score_args = <<>>
    /\ score = 0
    /\ in_session = <<>>
    /\ schema = <<>>
    /\ wire = <<>>
    /\ ref_models = <<>>
    /\ raise_errors = FALSE
    /\ validation = <<>>
    /\ caller_before = <<>>
    /\ MenuIdle

NextTolerance == CheckUnmapped \/ BeginMapped \/ CheckMapped \/ ReturnSummary

SpecTolerance == InitTolerance /\ [][NextTolerance]_vars

\* val lies in the inclusive range [c - t, c + t]
InsideRange(val, c, t) ==
    /\ val.t \in {"int", "float", "bool"}
    /\ c.n - t.n <= val.n
    /\ val.n <= c.n + t.n

\* the single record of the mapped pair fails exactly when some distinct
\* observed value lies outside the range
ToleranceRecordFailsIffOutside ==
    \A m \in 1..Len(mapping) :
        LET fdef == ref_session[1].fields[1]
            in_acq == AcquisitionRows(session_df, mapping[m][2])
            recs == PairAcquisitionRecords(m)
        IN  /\ Len(recs) = 1
            /\ ~recs[1].passed <=>
                  \E i \in Idx(in_acq) :
                      ~InsideRange(in_acq.rows[i]["RepetitionTime"],
                                   fdef.value, fdef.tolerance)

\* the scenario: every record of the mapped acquisition has RepetitionTime
\* 2000 (an int) and the constraint is 2300 with tolerance 100 (ints)
ToleranceScenario ==
    /\ pc = "check_done"
    /\ Len(mapping) = 1
    /\ ref_session[1].fields[1].value = PyInt(2300)
    /\ ref_session[1].fields[1].tolerance = PyInt(100)
    /\ LET in_acq == AcquisitionRows(session_df, mapping[1][2])
       IN  /\ in_acq.rows # <<>>
           /\ \A i \in Idx(in_acq) :
                 in_acq.rows[i]["RepetitionTime"]
                     = PyInt(2000)

----------------------------------------------------------------------------
(* Rules in Python: dicompare/validation.py.  A validation model is a class *)
(* whose decorated methods are its rules; here it is the record of the      *)
(* names of its methods in the order of the class body, validators for the  *)
(* @validator methods and model_rules for the @model_validator methods.     *)
(* An exception is named by its class, "" standing for no exception.        *)

\* the keys of an entry of the lists validate returns
ValidateEntryKeys ==
    {"acquisition", "field", "rule", "value", "message", "passed"}

\* GroupBy.first() of one column: the first non-null value of the rows
GroupFirst(data, rows, col) ==
    IF \A i \in rows : IsNull(data.rows[i][col]) THEN NaN
    ELSE data.rows[CHOOSE i \in rows :
                      /\ ~IsNull(data.rows[i][col])
                      /\ \A j \in rows :
                            j < i => IsNull(data.rows[j][col])][col]

\* get_unique_combinations(data, fields): one row per combination of the
\* values of fields, in sorted order with nulls last.  A field that is no
\* column is a KeyError, no field at all a ValueError.  A column outside
\* fields that is constant in every group is filled from
\* groupby(fields) without dropna=False, which has no group for a null key:
\* its values are then fewer than the rows and the assignment is a
\* ValueError.
get_unique_combinations(data0, fields) ==
    LET data == [cols |-> data0.cols,
                 rows |-> [i \in Idx(data0) |->
                             [c \in data0.cols |-> make_hashable(data0.rows[i][c])]]]
        key(i) == RowKey(data, i, fields)
        firsts == {i \in Idx(data) :
                      \A j \in 1..(i - 1) : ~SameKey(key(j), key(i))}
        place(i) == 1 + Cardinality({j \in firsts : SortKeyLess(key(j), key(i))})
        group(i) == {j \in Idx(data) : SameKey(key(j), key(i))}
        others == data.cols \ {fields[j] : j \in 1..Len(fields)}
        kept == {i \in firsts : ~HasNullKey(key(i))}
        is_unique_per_group(col) ==
            /\ kept # {}
            /\ \A i \in kept :
                  \A j, k \in group(i) :
                      SameCell(data.rows[j][col], data.rows[k][col])
        row(i) == [c \in data.cols |->
                      IF c \in others
                      THEN IF is_unique_per_group(c)
                           THEN GroupFirst(data, group(i), c) ELSE PyNone
                      ELSE data.rows[i][c]]
    IN  IF fields = <<>> THEN [raised |-> "ValueError", df |-> EmptyTable]
        ELSE IF \E j \in 1..Len(fields) : fields[j] \notin data.cols
        THEN [raised |-> "KeyError", df |-> EmptyTable]
        ELSE IF kept # firsts /\ \E c \in others : is_unique_per_group(c)
        THEN [raised |-> "ValueError", df |-> EmptyTable]
        ELSE [raised |-> "",
              df |-> [cols |-> data.cols,
                      rows |-> [k \in 1..Cardinality(firsts) |->
                                   row(CHOOSE i \in firsts : place(i) = k)]]]

\* two rules of the QSM model (tests/fixtures/ref_qsm.py)
validate_first_echo ==
    [name |-> "validate_first_echo", field_names |-> <<"EchoTime">>]
validate_echo_times ==
    [name |-> "validate_echo_times",
     field_names |-> <<"EchoTime", "MagneticFieldStrength">>]

\* what a call of the rule on the filtered table does: "return",
\* "ValidationError", or the class of another exception it raises
validator_outcome(v, value) ==
    LET echo_times == UniqueNonNull(value, "EchoTime")
        longest == CHOOSE k \in 1..Len(echo_times) :
                      \A j \in 1..Len(echo_times) : echo_times[j].n <= echo_times[k].n
        shortest == CHOOSE k \in 1..Len(echo_times) :
                      \A j \in 1..Len(echo_times) : echo_times[k].n <= echo_times[j].n
    IN  CASE v.name = "validate_first_echo" ->
                \* first_echo_time = value["EchoTime"].min(); > 10 fails
                IF echo_times # <<>> /\ echo_times[shortest].n > 10
                THEN "ValidationError" ELSE "return"
          [] OTHER ->
                \* tissue_values[field_strength] has the keys 1.5, 3.0, 7.0;
                \* at 3.0 the longest TE must lie in [0.75 * 31.5, 1.25 * 66.0]
                IF value.rows = <<>> THEN "IndexError"
                ELSE IF ~PyEq(value.rows[1]["MagneticFieldStrength"], PyFloat(3))
                THEN "KeyError"
                ELSE IF echo_times = <<>> THEN "IndexError"
                ELSE IF echo_times[longest].n > 82 \/ echo_times[longest].n < 24
                THEN "ValidationError" ELSE "return"

\* cls._field_validators.items() flattened: the validators grouped by their
\* tuple of field names, the groups in the order of their first validator
field_validators(model) ==
    LET vs == model.validators
        first(k) == CHOOSE j \in 1..Len(vs) :
                       /\ vs[j].field_names = vs[k].field_names
                       /\ \A i \in 1..(j - 1) :
                             vs[i].field_names # vs[k].field_names
        before(j, k) == first(j) < first(k) \/ (first(j) = first(k) /\ j < k)
        place(k) == 1 + Cardinality({j \in 1..Len(vs) : before(j, k)})
    IN  [p \in 1..Len(vs) |-> vs[CHOOSE k \in 1..Len(vs) : place(k) = p]]

\* BaseValidationModel.validate(data): the result, or the exception that
\* leaves it; calls lists the calls of validator functions made
validate(model, data) ==
    LET acquisitions == UniqueValues(data, "Acquisition")
        fvs == field_validators(model)
        n == Len(acquisitions) * Len(fvs)
        acq(k) == acquisitions[((k - 1) \div Len(fvs)) + 1]
        val(k) == fvs[((k - 1) % Len(fvs)) + 1]
        acquisition_data(k) ==
            SelectRows(data, {i \in Idx(data) :
                                 PyEq(data.rows[i]["Acquisition"], acq(k))})
        filtered_data(k) ==
            get_unique_combinations(acquisition_data(k), val(k).field_names)
        outcome(k) ==
            IF filtered_data(k).raised # "" THEN filtered_data(k).raised
            ELSE validator_outcome(val(k), filtered_data(k).df)
        leaves == {k \in 1..n : outcome(k) \notin {"return", "ValidationError"}}
        stop == IF leaves = {} THEN n + 1
                ELSE CHOOSE k \in leaves : \A j \in leaves : k <= j
        entry(k) ==
            [keys |-> ValidateEntryKeys,
             acquisition |-> acq(k),
             field |-> val(k).field_names,
             rule |-> val(k).name,
             value |-> PyList([j \in 1..Len(val(k).field_names) |->
                                 PyList([i \in Idx(filtered_data(k).df) |->
                                     filtered_data(k).df.rows[i][val(k).field_names[j]]])]),
             message |-> IF outcome(k) = "return" THEN "None" ELSE "e.message",
             passed |-> outcome(k) = "return"]
        done == [k \in 1..(stop - 1) |-> entry(k)]
        errors == SelectSeq(done, LAMBDA e : ~e.passed)
        passes == SelectSeq(done, LAMBDA e : e.passed)
        called == {k \in 1..n : k < stop \/ (k = stop /\ filtered_data(k).raised = "")}
    IN  [raised |-> IF stop <= n THEN outcome(stop) ELSE "",
         overall_success |-> errors = <<>>,
         errors |-> errors,
         passes |-> passes,
         calls |-> [k \in 1..Cardinality(called) |-> <<acq(k), val(k).name>>]]

----------------------------------------------------------------------------
(* check_session_compliance_with_python_module: dicompare/compliance.py *)

\* a record of the report of the rules of a module
ModuleRecord(keys, ref, inp, field, expected, value, message, passed) ==
    [keys |-> keys, ref |-> ref, inp |-> inp, series |-> PyNone,
     field |-> field, expected |-> expected, value |-> value,
     message |-> message, invalid |-> <<>>, passed |-> passed]

ModuleErrorKeys ==
    {"reference acquisition", "input acquisition", "field", "value",
     "expected", "message", "passed"}

ModuleEntryKeys ==
    ModuleErrorKeys \cup {"reference series", "input series"}

\* ref_models.get(ref_acq_name): the model, or <<>> for None
ReferenceModel(models, ref_acq_name) ==
    IF \E k \in 1..Len(models) : models[k][1] = ref_acq_name
    THEN models[CHOOSE k \in 1..Len(models) : models[k][1] = ref_acq_name][2]
    ELSE <<>>

\* one iteration of the loop over the session map: the records appended and
\* the exception that ends the call, if any
\* the body of the loop for one pair, result being what
\* ref_model.validate(data=in_acq) returns or raises
pair_records(in_acq, ref_model_cls, result, ref_acq_name, in_acq_name, raise_flag) ==
    LET entries == result.errors \o result.passes
        \* the dictionary of an entry reads error['expected']
        unreadable == {k \in 1..Len(entries) : "expected" \notin entries[k].keys}
        readable == IF unreadable = {} THEN Len(entries)
                    ELSE (CHOOSE k \in unreadable : \A j \in unreadable : k <= j) - 1
        record(e) ==
            ModuleRecord(ModuleEntryKeys, PyStr(ref_acq_name), PyStr(in_acq_name),
                         e.field, e.expected, e.value, e.message, e.passed)
    IN  IF in_acq.rows = <<>>
        THEN [raised |-> "", validation |-> <<>>,
              records |-> <<ModuleRecord(ModuleErrorKeys, PyStr(ref_acq_name),
                                         PyStr(in_acq_name),
                                         <<"Acquisition-Level Error">>,
                                         PyStr(<<"S", "p", "e", "c", "i", "f", "i", "e", "d", " ", "i", "n", "p", "u", "t", " ", "a", "c", "q", "u", "i", "s", "i", "t", "i", "o", "n", " ", "m", "u", "s", "t", " ", "b", "e", " ", "p", "r", "e", "s", "e", "n", "t", ".">>),
                                         PyNone, "not found in data.", FALSE)>>]
        ELSE IF ref_model_cls = <<>>
        THEN [raised |-> "", validation |-> <<>>,
              records |-> <<ModuleRecord(ModuleErrorKeys, PyStr(ref_acq_name),
                                         PyStr(in_acq_name), <<"Model Error">>,
                                         PyStr(<<"R", "e", "f", "e", "r", "e", "n", "c", "e", " ", "m", "o", "d", "e", "l", " ", "m", "u", "s", "t", " ", "e", "x", "i", "s", "t", ".">>),
                                         PyNone, "No model found", FALSE)>>]
        ELSE IF result.raised # ""
        THEN [raised |-> result.raised, validation |-> result, records |-> <<>>]
        ELSE IF unreadable # {}
        THEN [raised |-> "KeyError", validation |-> result,
              records |-> [k \in 1..readable |-> record(entries[k])]]
        ELSE IF raise_flag /\ ~result.overall_success
        THEN [raised |-> "ValueError", validation |-> result,
              records |-> [k \in 1..Len(entries) |-> record(entries[k])]]
        ELSE [raised |-> "", validation |-> result,
              records |-> [k \in 1..Len(entries) |-> record(entries[k])]]

\* validation: the result of validate when the pair reached it, else <<>>
module_pair_records(df, models, ref_acq_name, in_acq_name, raise_flag) ==
    pair_records(AcquisitionRows(df, in_acq_name),
                 ReferenceModel(models, ref_acq_name),
                 validate(ReferenceModel(models, ref_acq_name),
                          AcquisitionRows(df, in_acq_name)),
                 ref_acq_name, in_acq_name, raise_flag)

----------------------------------------------------------------------------
(* the rules of a module on bounded inputs *)

MaxModuleRecords == 2

ModuleEchoTimes == {PyFloat(5), PyFloat(50), NaN}
ModuleFieldStrengths == {PyFloat(3), PyFloat(2)}

\* tables with and without the column MagneticFieldStrength
ModuleRows(withStrength) ==
    LET cols == IF withStrength
                THEN {"Acquisition", "EchoTime", "MagneticFieldStrength"}
                ELSE {"Acquisition", "EchoTime"}
        row(a, et, fs) == [c \in cols |->
                              IF c = "Acquisition" THEN PyStr(a)
                              ELSE IF c = "EchoTime" THEN et ELSE fs]
    IN  {row(<<"a", "1">>, et, fs) :
            et \in ModuleEchoTimes, fs \in ModuleFieldStrengths}
        \cup {row(<<"a", "2">>, PyFloat(5), PyFloat(3))}

ModuleTables ==
    {[cols |-> IF withStrength
               THEN {"Acquisition", "EchoTime", "MagneticFieldStrength"}
               ELSE {"Acquisition", "EchoTime"},
      rows |-> rows] :
        withStrength \in BOOLEAN,
        rows \in UNION {[1..k -> ModuleRows(TRUE) \cup ModuleRows(FALSE)] :
                           k \in 0..MaxModuleRecords}}

\* a table is a table when all its rows have its columns
IsTable(df) == \A i \in Idx(df) : DOMAIN df.rows[i] = df.cols

\* models with no rule, one rule, two rules on one field group or on two,
\* and a model with a model-level rule
ModuleModels ==
    {[validators |-> vs, model_rules |-> ms] :
        vs \in {<<>>, <<validate_first_echo>>, <<validate_echo_times>>,
                <<validate_first_echo, validate_echo_times>>,
                <<validate_echo_times, validate_first_echo>>},
        ms \in {<<>>, <<"validate_model">>}}

ModuleSessionMaps ==
    {<<>>,
     <<<< <<"r", "1">>, <<"a", "1">> >>>>,
     <<<< <<"r", "1">>, <<"a", "1">> >>, << <<"r", "2">>, <<"a", "2">> >>>>,
     <<<< <<"r", "2">>, <<"a", "2">> >>, << <<"r", "1">>, <<"a", "1">> >>>>}

InitModule ==
    /\ pc = "module_loop"
    /\ cursor = 1
    /\ session_df \in {df \in ModuleTables : IsTable(df)}
    /\ \E m \in ModuleModels :
          ref_models \in {<< << <<"r", "1">>, m >> >>,
                          << << <<"r", "1">>, m >>,
                             << <<"r", "2">>, m >> >>}
    /\ mapping \in ModuleSessionMaps
    /\ raise_errors \in BOOLEAN
    /\ compliance_summary = <<>>
    /\ raised = FALSE
    /\ out_df = EmptyTable
    /\ score_args = <<>>
    /\ score = 0
    /\ in_session = <<>>
    /\ ref_session = <<>>
    /\ schema = <<>>
    /\ wire = <<>>
    /\ validation = <<>>
    /\ caller_before = <<>>
    /\ MenuIdle

\* one iteration of the loop over the items of the session map; an
\* exception ends the call, pc naming its class
ModuleRecordPair(r) ==
    /\ compliance_summary' = compliance_summary \o r.records
    /\ raised' = (r.raised # "")
    /\ pc' = IF r.raised # "" THEN r.raised ELSE pc
    /\ validation' = IF r.validation # <<>> THEN r.validation ELSE validation
    /\ cursor' = cursor + 1
    /\ UNCHANGED <<session_df, out_df, score_args, score, in_session,
                   ref_session, mapping, schema, wire, ref_models,
                   raise_errors,
                   caller_before,
                   reverse_mapping, selected_ref_idx, selected_input_idx,
                   initial_mapping>>

ModuleCheckPair ==
    /\ pc = "module_loop"
    /\ cursor <= Len(mapping)
    /\ ModuleRecordPair(module_pair_records(session_df, ref_models,
                                            mapping[cursor][1],
                                            mapping[cursor][2], raise_errors))

ModuleReturn ==
    /\ pc = "module_loop"
    /\ cursor > Len(mapping)
    /\ pc' = "module_done"
    /\ UNCHANGED <<session_df, out_df, raised, score_args, score, in_session,
                   ref_session, mapping, compliance_summary, cursor, schema,
                   wire, ref_models, raise_errors, validation,
                   caller_before,
                   reverse_mapping, selected_ref_idx, selected_input_idx,
                   initial_mapping>>

NextModule == ModuleCheckPair \/ ModuleReturn

SpecModule == InitModule /\ [][NextModule]_vars

\* C13: with raise_errors off the check against the rules of a module raises
\* no exception, and when it has returned the report has one record for
\* every rule that was evaluated on a mapped acquisition, failing or passing.
C13_NoRaiseByDefault ==
    ~raise_errors =>
        /\ ~raised
        /\ pc = "module_done" =>
              \A m \in 1..Len(mapping) :
                  LET in_acq == AcquisitionRows(session_df, mapping[m][2])
                      model == ReferenceModel(ref_models, mapping[m][1])
                  IN  (in_acq.rows # <<>> /\ model # <<>>) =>
                          Cardinality({k \in 1..Len(compliance_summary) :
                                          /\ compliance_summary[k].ref = PyStr(mapping[m][1])
                                          /\ compliance_summary[k].inp = PyStr(mapping[m][2])})
                              = Len(model.validators)

\* the rules of the acquisition checked last of which one failed, and the
\* number of the first such rule among the rules of the model
LastCheckFailed == validation # <<>> /\ validation.errors # <<>>

FirstFailingRule ==
    LET model == ReferenceModel(ref_models, mapping[cursor - 1][1])
        fvs == field_validators(model)
    IN  CHOOSE k \in 1..Len(fvs) :
           /\ fvs[k].name = validation.errors[1].rule
           /\ \A j \in 1..(k - 1) : fvs[j].name # validation.errors[1].rule

\* C14: with raise_errors on, a failing rule ends the call with the
\* ValueError of the check, no rule of the acquisition after the first
\* failing one having been evaluated and no later item of the session map
\* processed; with raise_errors off the call raises nothing.
C14_RaiseOnFirstError ==
    /\ ~raise_errors => ~raised
    /\ (raise_errors /\ LastCheckFailed) =>
          /\ pc = "ValueError"
          /\ Len(validation.calls) = FirstFailingRule
    /\ raised => cursor <= Len(mapping) + 1

----------------------------------------------------------------------------
(* BaseValidationModel.validate on bounded inputs *)

InitValidate ==
    /\ pc = "validate_call"
    /\ session_df \in {df \in ModuleTables : IsTable(df)}
    /\ \E m \in ModuleModels : ref_models = << << <<"r", "1">>, m >> >>
    /\ validation = <<>>
    /\ caller_before = <<>>
    /\ MenuIdle
    /\ raised = FALSE
    /\ raise_errors = FALSE
    /\ mapping = <<>>
    /\ compliance_summary = <<>>
    /\ cursor = 0
    /\ out_df = EmptyTable
    /\ score_args = <<>>
    /\ score = 0
    /\ in_session = <<>>
    /\ ref_session = <<>>
    /\ schema = <<>>
    /\ wire = <<>>

\* ref_model.validate(data=session_df)
Validate ==
    /\ pc = "validate_call"
    /\ validation' = validate(ref_models[1][2], session_df)
    /\ raised' = (validation'.raised # "")
    /\ pc' = "validate_done"
    /\ UNCHANGED <<session_df, out_df, score_args, score, in_session,
                   ref_session, mapping, compliance_summary, cursor, schema,
                   wire, ref_models, raise_errors,
                   caller_before,
                   reverse_mapping, selected_ref_idx, selected_input_idx,
                   initial_mapping>>

NextValidate == Validate

SpecValidate == InitValidate /\ [][NextValidate]_vars

\* C15: validate returns, having called every field validator of the model
\* exactly once for every acquisition of the data; every call has one entry,
\* among the failures or among the passes, and the success flag is true
\* exactly when there is no failure.
C15_ValidateOnce ==
    pc = "validate_done" =>
        LET acquisitions == UniqueValues(session_df, "Acquisition")
            vs == ref_models[1][2].validators
            calls == validation.calls
        IN  /\ ~raised
            /\ \A a \in 1..Len(acquisitions), k \in 1..Len(vs) :
                  Cardinality({c \in 1..Len(calls) :
                                  calls[c] = <<acquisitions[a], vs[k].name>>}) = 1
            /\ Len(validation.errors) + Len(validation.passes) = Len(calls)
            /\ validation.overall_success <=> (validation.errors = <<>>)

----------------------------------------------------------------------------
(* one pass of assign_acquisition_and_run_numbers over tables that lack     *)
(* some of the columns the pass reads                                       *)

MaxLabelRecords == 2

\* every subset of the columns the pass reads besides the settings fields,
\* with or without the settings field RepetitionTime
LabelColumnSets ==
    {base \cup opt :
        base \in SUBSET {"ProtocolName", "SeriesDescription", "SeriesTime",
                         "SeriesInstanceUID", "PatientID"},
        opt \in {{}, {"RepetitionTime"}}}

LabelRows(cols) ==
    {[c \in cols |->
        CASE c = "ProtocolName" -> PyStr(<<"t", "1">>)
          [] c = "RepetitionTime" -> rt
          [] c = "SeriesDescription" -> PyStr(<<"d">>)
          [] c = "PatientID" -> PyStr(<<"P", "1">>)
          [] OTHER -> PyStr(time)] :
        rt \in {NaN, PyFloat(1), PyFloat(2)},
        time \in {<<"0", "9">>, <<"1", "0">>}}

InitLabel ==
    /\ pc = "acq_call"
    /\ \E cols \in LabelColumnSets, k \in 1..MaxLabelRecords :
         \E rows \in [1..k -> LabelRows(cols)] :
            session_df = [cols |-> cols, rows |-> rows]
    /\ Idle

NextLabel == AssignAcquisitionAndRunNumbers

SpecLabel == InitLabel /\ [][NextLabel]_vars

\* C16: the pass raises for no table, and the table it returns has an
\* Acquisition label and a RunNumber for every record of the input.
C16_NeverRaises ==
    pc = "acq_done" =>
        /\ ~raised
        /\ {"Acquisition", "RunNumber"} \subseteq out_df.cols
        /\ NRows(out_df) = NRows(session_df)
        /\ \A i \in Idx(out_df) :
              /\ out_df.rows[i]["Acquisition"].t = "str"
              /\ out_df.rows[i]["RunNumber"].t = "int"

----------------------------------------------------------------------------
\* C17: map_session raises for no pair of sessions, and the mapping it
\* returns is empty when the input or the reference has no series.
C17_MapNeverRaises ==
    pc = "map_done" =>
        /\ ~raised
        /\ (SeriesEntries(in_session) = <<>> \/ SeriesEntries(ref_session) = <<>>)
              => mapping = {}

\* C18: when the sessions differ in their number of series, map_session
\* raises nothing and returns exactly min(inputs, references) edges, no
\* identity being in two edges, so that the surplus identities are in none.
C18_MinEdges ==
    (pc = "map_done"
        /\ Len(SeriesEntries(in_session)) # Len(SeriesEntries(ref_session))) =>
        /\ ~raised
        /\ Cardinality(mapping) = Min(Len(SeriesEntries(in_session)),
                                      Len(SeriesEntries(ref_session)))
        /\ OneToOne(mapping)

\* C19: every record of a compliance report has the keys 'reference
\* acquisition', 'input acquisition', 'series', 'field', 'expected',
\* 'value', 'message' and 'passed'.
C19_RecordKeys ==
    \A k \in 1..Len(compliance_summary) :
        {"reference acquisition", "input acquisition", "series", "field",
         "expected", "value", "message", "passed"}
            \subseteq compliance_summary[k].keys

----------------------------------------------------------------------------
(* one pass of assign_acquisition_and_run_numbers over multi-echo tables:   *)
(* records of one protocol whose series differ in their EchoTime values     *)

MaxEchoRecords == 3

EchoCols == {"ProtocolName", "SeriesDescription", "SeriesTime", "EchoTime",
             "RepetitionTime"}

EchoRows ==
    {[c \in EchoCols |->
        CASE c = "ProtocolName" -> PyStr(<<"t", "1">>)
          [] c = "SeriesDescription" -> PyStr(<<"d">>)
          [] c = "SeriesTime" -> PyStr(time)
          [] c = "EchoTime" -> te
          [] OTHER -> rt] :
        time \in {<<"0", "9">>, <<"1", "0">>, <<"1", "1">>},
        te \in {PyFloat(7), PyFloat(12), PyFloat(17)},
        rt \in {PyFloat(1), PyFloat(2)}}

InitEcho ==
    /\ pc = "acq_call"
    /\ \E k \in 1..MaxEchoRecords :
         \E rows \in [1..k -> EchoRows] :
            session_df = [cols |-> EchoCols, rows |-> rows]
    /\ Idle

NextEcho == AssignAcquisitionAndRunNumbers

SpecEcho == InitEcho /\ [][NextEcho]_vars

\* the records of the series acquired at one SeriesTime
EchoGroup(time) ==
    {i \in Idx(out_df) : out_df.rows[i]["SeriesTime"] = time}

EchoSet(g) == {out_df.rows[i]["EchoTime"] : i \in g}

EchoLabels(g) == {out_df.rows[i]["Acquisition"].s : i \in g}

\* two groups that agree on every column but SeriesTime and EchoTime
IdenticalExceptEcho(g, h) ==
    /\ g # {} /\ h # {}
    /\ \A i \in g \cup h, j \in g \cup h :
          out_df.rows[i]["RepetitionTime"] = out_df.rows[j]["RepetitionTime"]

\* label = base name, a dash, a number
HasNumericSuffix(label, base) ==
    /\ Len(label) > Len(base) + 1
    /\ SubSeq(label, 1, Len(base)) = base
    /\ label[Len(base) + 1] = "-"
    /\ \A k \in (Len(base) + 2)..Len(label) : \E d \in 1..Len(Digits) : label[k] = Digits[d]

\* C20: two groups of one protocol that are identical except for their set
\* of EchoTime values get two distinct Acquisition labels, each the
\* protocol-derived base name followed by a numeric suffix; two groups with
\* the same EchoTime set get the same label.
C20_EchoTimeLabels ==
    pc = "acq_done" =>
        /\ ~raised
        /\ \A a \in {r["SeriesTime"] : r \in EchoRows},
              b \in {r["SeriesTime"] : r \in EchoRows} :
              LET g == EchoGroup(a)
                  h == EchoGroup(b)
                  base == <<"a", "c", "q", "-", "t", "1">>
              IN  (a # b /\ IdenticalExceptEcho(g, h)) =>
                     IF EchoSet(g) = EchoSet(h)
                     THEN EchoLabels(g) = EchoLabels(h)
                     ELSE /\ EchoLabels(g) \cap EchoLabels(h) = {}
                          /\ \A l \in EchoLabels(g) \cup EchoLabels(h) :
                                HasNumericSuffix(l, base)

----------------------------------------------------------------------------
(* assign_temporal_runs over tables whose records carry the repetition they *)
(* were acquired in: the series of one repetition have SeriesTime values    *)
(* that differ, all earlier than those of the next repetition               *)

MaxRepRecords == 3

RepCols == {"PatientID", "ProtocolName", "AcquisitionSignature",
            "SeriesDescription", "SeriesTime", "AcquisitionTime"}

\* SeriesTime values and the AcquisitionTime bin of their repetition
RepTimes == {<< <<"0", "9", "1">>, <<"1">> >>, << <<"0", "9", "2">>, <<"1">> >>,
             << <<"1", "0", "1">>, <<"2">> >>, << <<"1", "0", "2">>, <<"2">> >>}

RepSignatures == {<<"a","c","q","-","t","1","-","1">>,
                  <<"a","c","q","-","t","1","-","2">>}

RepRows ==
    {[c \in RepCols |->
        CASE c = "PatientID" -> PyStr(<<"P", "1">>)
          [] c = "ProtocolName" -> PyStr(<<"t", "1">>)
          [] c = "AcquisitionSignature" -> PyStr(sig)
          [] c = "SeriesDescription" -> PyStr(<<"d">>)
          [] c = "SeriesTime" -> PyStr(t[1])
          [] OTHER -> PyStr(t[2])] :
        sig \in RepSignatures, t \in RepTimes}

InitRep ==
    /\ pc = "runs_call"
    /\ \E k \in 1..MaxRepRecords :
         \E rows \in [1..k -> RepRows] :
            session_df = [cols |-> RepCols, rows |-> rows]
    /\ Idle

NextRep == AssignTemporalRuns

SpecRep == InitRep /\ [][NextRep]_vars

\* the records of out_df with the signature sig acquired in repetition rep
Repetition(sig, rep) ==
    {i \in Idx(out_df) :
        /\ out_df.rows[i]["AcquisitionSignature"] = PyStr(sig)
        /\ out_df.rows[i]["AcquisitionTime"] = PyStr(rep)}

RepRunNumbers(g) == {out_df.rows[i]["RunNumber"] : i \in g}

\* C21: all records of one repetition of an acquisition have one RunNumber,
\* whatever their SeriesTime; the earliest repetition of a signature has
\* RunNumber 1 and a later repetition of it RunNumber 2, and another
\* signature interleaved in time starts again at 1.
C21_RepetitionRuns ==
    pc = "runs_done" =>
        /\ ~raised
        /\ \A sig \in RepSignatures :
              LET first == Repetition(sig, <<"1">>)
                  second == Repetition(sig, <<"2">>)
              IN  /\ first # {} => RepRunNumbers(first) = {PyInt(1)}
                  /\ (first # {} /\ second # {}) => RepRunNumbers(second) = {PyInt(2)}
                  /\ (first = {} /\ second # {}) => RepRunNumbers(second) = {PyInt(1)}

----------------------------------------------------------------------------
(* the caller's table across one call of assign_acquisition_and_run_numbers, *)
(* with null and non-string protocol names and list-valued fields            *)

MaxFrameRecords == 2

FrameColumnSets == {{"ProtocolName", "SeriesDescription", "SeriesTime", "ImageType"},
                    {"ProtocolName", "SeriesDescription", "SeriesTime", "ImageType",
                     "RepetitionTime"}}

FrameRows(cols) ==
    {[c \in cols |->
        CASE c = "ProtocolName" -> p
          [] c = "SeriesDescription" -> PyStr(<<"d">>)
          [] c = "SeriesTime" -> PyStr(time)
          [] c = "ImageType" -> it
          [] OTHER -> rt] :
        p \in {PyStr(<<"t", "1">>), NaN, PyInt(1)},
        time \in {<<"0", "9">>, <<"1", "0">>},
        it \in {PyList(<<PyStr(<<"M">>)>>), PyTuple(<<PyStr(<<"M">>)>>),
                PyStr(<<"M">>)},
        rt \in {PyFloat(1), PyFloat(2)}}

InitFrame ==
    /\ pc = "acq_call"
    /\ \E cols \in FrameColumnSets, k \in 1..MaxFrameRecords :
         \E rows \in [1..k -> FrameRows(cols)] :
            session_df = [cols |-> cols, rows |-> rows]
    /\ out_df = EmptyTable
    /\ raised = FALSE
    /\ score_args = <<>>
    /\ score = 0
    /\ in_session = <<>>
    /\ ref_session = <<>>
    /\ mapping = <<>>
    /\ compliance_summary = <<>>
    /\ cursor = 0
    /\ schema = <<>>
    /\ wire = <<>>
    /\ ref_models = <<>>
    /\ raise_errors = FALSE
    /\ validation = <<>>
    /\ caller_before = session_df
    /\ MenuIdle

NextFrame == AssignAcquisitionAndRunNumbers

SpecFrame == InitFrame /\ [][NextFrame]_vars

\* C22: after assign_acquisition_and_run_numbers every field the caller's
\* records had before the call has the value it had, and the call has added
\* to them nothing but the attributes Acquisition and RunNumber.
C22_CallerUnchanged ==
    pc = "acq_done" =>
        /\ NRows(session_df) = NRows(caller_before)
        /\ \A i \in Idx(caller_before), c \in caller_before.cols :
              /\ c \in session_df.cols
              /\ session_df.rows[i][c] = caller_before.rows[i][c]
        /\ session_df.cols \ caller_before.cols \subseteq {"Acquisition", "RunNumber"}

----------------------------------------------------------------------------
(* compute_compliance_score: dicompare/cli/match.py.  The results of the    *)
(* compliance check enter by their statuses only, and in no order: they are *)
(* the bag of the statuses, a count for each.  A score is held in tenths.   *)

MaxOkResults == 2001
MaxOtherResults == 1

Statuses == {"ok", "error", "warning", "na", "unknown", "None"}

\* round(x, 1) of x = num / den >= 0, in tenths.  When x is halfway between
\* two tenths the binary value of the quotient decides (6.25 rounds to 6.2,
\* 0.05 to 0.1): up says which neighbour it is
RoundTenths(num, den, up) ==
    LET q == (10 * num) \div den
        r == (10 * num) % den
    IN  IF 2 * r < den THEN q
        ELSE IF 2 * r > den THEN q + 1
        ELSE IF up THEN q + 1 ELSE q

\* the same with na and unknown results counted in the total
compute_compliance_score_counting_na(results, up) ==
    LET pass_count == results["ok"]
        na_count == results["na"] + results["unknown"]
        total_count == results["ok"] + results["error"] + results["warning"]
                          + results["na"] + results["unknown"] + results["None"]
    IN  [score |-> IF total_count > 0
                   THEN RoundTenths(pass_count * 100, total_count, up) ELSE 0,
         pass_count |-> pass_count,
         fail_count |-> results["error"],
         warning_count |-> results["warning"],
         total_count |-> total_count,
         na_count |-> na_count]

compute_compliance_score(results, up) ==
    LET len == results["ok"] + results["error"] + results["warning"]
                  + results["na"] + results["unknown"] + results["None"]
        pass_count == results["ok"]
        fail_count == results["error"]
        warning_count == results["warning"]
        na_count == results["na"] + results["unknown"]
        total_count == len - na_count
    IN  [score |-> IF total_count > 0
                   THEN RoundTenths(pass_count * 100, total_count, up) ELSE 0,
         pass_count |-> pass_count,
         fail_count |-> fail_count,
         warning_count |-> warning_count,
         total_count |-> total_count,
         na_count |-> na_count]

ResultBags ==
    {[st \in Statuses |->
        CASE st = "ok" -> ok
          [] st = "error" -> err
          [] st = "warning" -> warn
          [] st = "na" -> na
          [] st = "unknown" -> unk
          [] OTHER -> none] :
        ok \in 0..MaxOkResults, err \in 0..(MaxOtherResults + 1),
        warn \in 0..MaxOtherResults, na \in 0..MaxOtherResults,
        unk \in 0..MaxOtherResults, none \in 0..MaxOtherResults}

\* score_args holds the results of the check, score the returned dictionary
InitComplianceScore ==
    /\ pc = "score_call"
    /\ score_args \in ResultBags
    /\ score = 0
    /\ session_df = EmptyTable
    /\ out_df = EmptyTable
    /\ raised = FALSE
    /\ in_session = <<>>
    /\ ref_session = <<>>
    /\ mapping = <<>>
    /\ compliance_summary = <<>>
    /\ cursor = 0
    /\ schema = <<>>
    /\ wire = <<>>
    /\ ref_models = <<>>
    /\ raise_errors = FALSE
    /\ validation = <<>>
    /\ caller_before = <<>>
    /\ MenuIdle

ComputeComplianceScore ==
    /\ pc = "score_call"
    /\ \E up \in BOOLEAN : score' = compute_compliance_score(score_args, up)
    /\ pc' = "score_done"
    /\ UNCHANGED <<session_df, out_df, raised, score_args, in_session,
                   ref_session, mapping, compliance_summary, cursor, schema,
                   wire, ref_models, raise_errors, validation, caller_before,
                   reverse_mapping, selected_ref_idx, selected_input_idx,
                   initial_mapping>>

NextComplianceScore == ComputeComplianceScore

SpecComplianceScore == InitComplianceScore /\ [][NextComplianceScore]_vars

ResultCount == score_args["ok"] + score_args["error"] + score_args["warning"]
                  + score_args["na"] + score_args["unknown"] + score_args["None"]

\* the counts and the rounding of the score, common to the claim as stated
\* and as amended: total_count leaves out na and unknown, the score is 0.0
\* for no counted result and else a tenth nearest to 100 * pass / total
ScoreIsRoundedRatio ==
    /\ score.pass_count = score_args["ok"]
    /\ score.total_count
          = ResultCount - (score_args["na"] + score_args["unknown"])
    /\ score.total_count = 0 => score.score = 0
    /\ score.total_count > 0 =>
          LET d == score.score * score.total_count - 1000 * score.pass_count
          IN  2 * d <= score.total_count /\ -2 * d <= score.total_count
    /\ (score.total_count > 0 /\ score.pass_count = score.total_count)
          => score.score = 1000
    /\ (score.total_count > 0 /\ score.pass_count = 0) => score.score = 0

\* some counted results pass and some do not
MixedResults == score.pass_count > 0 /\ score.pass_count < score.total_count

\* C23 as stated: ... and a mix scores strictly between 0 and 100.
C23_ScoreAsStated ==
    pc = "score_done" =>
        /\ ScoreIsRoundedRatio
        /\ MixedResults => (score.score > 0 /\ score.score < 1000)

\* C23: the score is 100 * pass_count / total_count rounded to one decimal,
\* total_count leaving out the na and unknown results, and 0.0 when
\* total_count is 0; all ok is 100.0, all error 0.0, and a mix of fewer
\* than 2000 counted results scores strictly between 0 and 100, a larger
\* mix between 0 and 100 inclusive.
C23_Score ==
    pc = "score_done" =>
        /\ ScoreIsRoundedRatio
        /\ MixedResults =>
              /\ score.score >= 0 /\ score.score <= 1000
              /\ score.total_count < 2000 =>
                    (score.score > 0 /\ score.score < 1000)

\* a mix with results left out of the total has been scored
C23_Witness ==
    /\ pc = "score_done"
    /\ MixedResults
    /\ score.na_count > 0
    /\ score.total_count < 2000

----------------------------------------------------------------------------
(* the counter of the labels of one protocol partition, under SpecAcq *)

\* the settings tuple of record i of the returned table
SettingsTuple(i) ==
    RowKey(out_df, i, grouping_fields(out_df, DEFAULT_SETTINGS_FIELDS))

\* the records of the protocol partition of record i that are in a group
Grouped(i) ==
    {j \in ProtocolGroup(out_df, i) : ~HasNullKey(SettingsTuple(j))}

\* the number after the base name in the label of record i, 0 for none
LabelCounter(i) ==
    LET label == out_df.rows[i]["Acquisition"].s
        base == <<"a", "c", "q", "-">> \o clean_string(out_df.rows[i]["ProtocolName"].s)
    IN  IF Len(label) > Len(base) + 1 /\ SubSeq(label, 1, Len(base)) = base
        THEN ParseNat(SubSeq(label, Len(base) + 2, Len(label)))
        ELSE 0

\* a tuple sorts before another: equal up to a field where it is smaller
TupleBefore(a, b) ==
    \E p \in 1..Len(a) :
        /\ \A q \in 1..(p - 1) : a[q] = b[q]
        /\ IF a[p].t = "str" THEN StrLess(a[p].s, b[p].s) ELSE a[p].n < b[p].n

\* the partition of record i has several settings tuples
SeveralTuples(i) ==
    Cardinality({SettingsTuple(j) : j \in Grouped(i)}) > 1

\* the place of the tuple of record i among the tuples of its partition in
\* the order of their first records
FirstObservedPlace(i) ==
    LET first == CHOOSE j \in Grouped(i) :
                    /\ SettingsTuple(j) = SettingsTuple(i)
                    /\ \A x \in Grouped(i) :
                          SettingsTuple(x) = SettingsTuple(i) => j <= x
    IN  1 + Cardinality({SettingsTuple(x) : x \in {y \in Grouped(i) : y < first}})

\* C24 as stated: the counter of a label is the place of the record's
\* settings tuple in the order in which the tuples are first observed among
\* the records of the protocol partition.
C24_FirstObservedAsStated ==
    (pc = "acq_done" /\ ~raised) =>
        \A i \in Idx(out_df) :
            (i \in Grouped(i) /\ SeveralTuples(i)) =>
                LabelCounter(i) = FirstObservedPlace(i)

\* C24: within one protocol partition with several settings tuples the
\* counter of a label is the 1-based place of the record's settings tuple
\* in the ascending order of the tuples, whatever the order of the records:
\* the smallest tuple gets 1, the next 2.
C24_SortedCounter ==
    (pc = "acq_done" /\ ~raised) =>
        \A i \in Idx(out_df) :
            (i \in Grouped(i) /\ SeveralTuples(i)) =>
                /\ LabelCounter(i) \in
                      1..Cardinality({SettingsTuple(j) : j \in Grouped(i)})
                /\ \A j \in Grouped(i) :
                      (LabelCounter(i) < LabelCounter(j))
                         <=> TupleBefore(SettingsTuple(i), SettingsTuple(j))

\* a partition whose first record does not have the smallest tuple
C24_Witness ==
    /\ pc = "acq_done" /\ ~raised
    /\ \E i, j \in Idx(out_df) :
          /\ i < j
          /\ i \in Grouped(i) /\ j \in Grouped(i)
          /\ \A x \in Grouped(i) : i <= x
          /\ TupleBefore(SettingsTuple(j), SettingsTuple(i))
          /\ LabelCounter(j) = 1 /\ LabelCounter(i) = 2

----------------------------------------------------------------------------
(* calculate_match_score on a reference row and an input row of at most     *)
(* MaxMatchFields fields each.  ref_session holds the reference row,         *)
(* in_session the input row, score the returned score in thousandths.       *)

MaxMatchFields == 2

MatchRefNames == {"EchoTime", "FlipAngle"}
MatchInNames == {"EchoTime", "FlipAngle", "Extra"}
MatchRefValues == {PyFloatMilli(1004), PyInt(1), PyStr(<<"a", "*">>)}
MatchInValues == {PyFloat(1), PyFloatMilli(1002), PyStr(<<"a">>)}

MatchRefRows ==
    {[fields |-> fs] :
        fs \in UNION {[1..k -> {RefField(name, v) :
                                   name \in MatchRefNames, v \in MatchRefValues}] :
                         k \in 0..MaxMatchFields}}

MatchInRows ==
    {[fields |-> fs] :
        fs \in UNION {[1..k -> {InField(name, v) :
                                   name \in MatchInNames, v \in MatchInValues}] :
                         k \in 0..MaxMatchFields}}

InitMatch ==
    /\ pc = "match_call"
    /\ ref_session \in MatchRefRows
    /\ in_session \in MatchInRows
    /\ score = 0
    /\ raised = FALSE
    /\ score_args = <<>>
    /\ session_df = EmptyTable
    /\ out_df = EmptyTable
    /\ mapping = <<>>
    /\ compliance_summary = <<>>
    /\ cursor = 0
    /\ schema = <<>>
    /\ wire = <<>>
    /\ ref_models = <<>>
    /\ raise_errors = FALSE
    /\ validation = <<>>
    /\ caller_before = <<>>
    /\ MenuIdle

CalculateMatchScore ==
    /\ pc = "match_call"
    /\ LET r == calculate_match_score(ref_session, in_session)
       IN  /\ raised' = r.raised
           /\ score' = ScoreMilli(r)
    /\ pc' = "match_done"
    /\ UNCHANGED <<session_df, out_df, score_args, in_session, ref_session,
                   mapping, compliance_summary, cursor, schema, wire,
                   ref_models, raise_errors, validation, caller_before,
                   reverse_mapping, selected_ref_idx, selected_input_idx,
                   initial_mapping>>

NextMatch == CalculateMatchScore

SpecMatch == InitMatch /\ [][NextMatch]_vars

\* the value the input row has for a field name, None when it has none
InputValueOf(name) ==
    LET named == {j \in 1..Len(in_session.fields) : in_session.fields[j].field = name}
    IN  IF named = {} THEN PyNone
        ELSE in_session.fields[CHOOSE j \in named : \A x \in named : j <= x].value

\* calculate_field_score of the k-th field of the reference row
RefFieldScore(k) ==
    calculate_field_score(ref_session.fields[k].value,
                          InputValueOf(ref_session.fields[k].field),
                          ref_session.fields[k].tolerance,
                          ref_session.fields[k].contains)

\* the exact sum of the field scores over the reference fields, thousandths
RefFieldSum ==
    SumSeq([k \in 1..Len(ref_session.fields) |-> ScoreMilli(RefFieldScore(k))])

\* the input row without the fields the reference row does not name
NamedInputOnly ==
    [fields |-> SelectSeq(in_session.fields,
                    LAMBDA f : \E k \in 1..Len(ref_session.fields) :
                                  ref_session.fields[k].field = f.field)]

\* what the claim as stated and as amended share: the call raises exactly
\* when the score of a reference field does, and the input fields the
\* reference does not name have no effect
MatchOverReferenceFields ==
    /\ raised <=> \E k \in 1..Len(ref_session.fields) : RefFieldScore(k).raised
    /\ LET r == calculate_match_score(ref_session, NamedInputOnly)
       IN  r.raised = raised /\ (~raised => ScoreMilli(r) = score)

\* C25 as stated: the match score equals the sum of the field scores.
C25_SumAsStated ==
    pc = "match_done" =>
        /\ MatchOverReferenceFields
        /\ ~raised => score = RefFieldSum

\* C25: calculate_match_score is the sum, rounded to two decimals, of
\* calculate_field_score over exactly the fields of the reference row, a
\* reference field the input lacks being scored against None; input fields
\* the reference does not name leave the score unchanged.
C25_RoundedSum ==
    pc = "match_done" =>
        /\ MatchOverReferenceFields
        /\ ~raised =>
              /\ score % 10 = 0
              /\ score - RefFieldSum <= 5 /\ RefFieldSum - score <= 5

\* a reference field the input lacks, an input field the reference does not
\* name, and a sum that is no whole number of hundredths
C25_Witness ==
    /\ pc = "match_done" /\ ~raised
    /\ \E k \in 1..Len(ref_session.fields) :
          \A j \in 1..Len(in_session.fields) :
              in_session.fields[j].field # ref_session.fields[k].field
    /\ \E j \in 1..Len(in_session.fields) : in_session.fields[j].field = "Extra"
    /\ RefFieldSum % 10 # 0

----------------------------------------------------------------------------
(* calculate_field_score on numbers, whole and fractional; score holds the  *)
(* returned score in thousandths                                            *)

MaxNumber == 14

NumericValues ==
    {PyInt(0), PyInt(3), PyFloat(3), PyInt(MaxNumber), PyInt(-4), PyBool(TRUE),
     PyFloatMilli(2500), PyFloatMilli(1000 * MaxNumber - 1), NaN}
NumericTolerances == {PyNone, PyInt(0), PyInt(2), PyFloatMilli(500)}

InitNumeric ==
    /\ pc = "score_call"
    /\ \E expected \in NumericValues, actual \in NumericValues,
          tolerance \in NumericTolerances, contains \in {PyNone, PyInt(3)} :
         score_args = [expected |-> expected, actual |-> actual,
                       tolerance |-> tolerance, contains |-> contains]
    /\ session_df = EmptyTable
    /\ out_df = EmptyTable
    /\ raised = FALSE
    /\ score = 0
    /\ in_session = <<>>
    /\ ref_session = <<>>
    /\ mapping = <<>>
    /\ compliance_summary = <<>>
    /\ cursor = 0
    /\ schema = <<>>
    /\ wire = <<>>
    /\ ref_models = <<>>
    /\ raise_errors = FALSE
    /\ validation = <<>>
    /\ caller_before = <<>>
    /\ MenuIdle

CalculateNumericScore ==
    /\ pc = "score_call"
    /\ LET r == calculate_field_score(score_args.expected, score_args.actual,
                                      score_args.tolerance, score_args.contains)
       IN  /\ raised' = r.raised
           /\ score' = ScoreMilli(r)
    /\ pc' = "score_done"
    /\ UNCHANGED <<session_df, out_df, score_args, in_session, ref_session,
                   mapping, compliance_summary, cursor, schema, wire,
                   ref_models, raise_errors, validation, caller_before,
                   reverse_mapping, selected_ref_idx, selected_input_idx,
                   initial_mapping>>

NextNumeric == CalculateNumericScore

SpecNumeric == InitNumeric /\ [][NextNumeric]_vars

\* |expected - actual| in thousandths, for two numbers that are not nan
Distance == Abs(Milli(score_args.expected) - Milli(score_args.actual))

BothNumbersNoContains ==
    /\ pc = "score_done"
    /\ score_args.expected.t \in {"int", "float", "bool"}
    /\ score_args.actual.t \in {"int", "float", "bool"}
    /\ score_args.contains = PyNone

\* C26: for two numbers and no contains constraint (a number is no
\* wildcard pattern) calculate_field_score returns 0 when a tolerance is
\* given and |expected - actual| <= tolerance, and min(10, |expected -
\* actual|) otherwise.
C26_NumericScore ==
    BothNumbersNoContains =>
        /\ ~raised
        /\ score = IF score_args.tolerance # PyNone
                      /\ Distance <= Milli(score_args.tolerance)
                   THEN 0
                   ELSE IF Distance < 1000 * MAX_DIFF_SCORE THEN Distance
                   ELSE 1000 * MAX_DIFF_SCORE

\* a difference equal to a positive tolerance
C26_Witness ==
    /\ BothNumbersNoContains
    /\ score_args.tolerance # PyNone
    /\ Distance > 0
    /\ Distance = Milli(score_args.tolerance)
    /\ score = 0

----------------------------------------------------------------------------
(* Labels across protocols, under SpecAcq                                   *)

\* C27: two records with different protocol names never get the same
\* Acquisition label, whatever characters the names contain and however
\* many settings tuples each protocol has.
C27_ProtocolLabels ==
    (pc = "acq_done" /\ ~raised) =>
        \A i, j \in Idx(out_df) :
            out_df.rows[i]["ProtocolName"] # out_df.rows[j]["ProtocolName"]
                => out_df.rows[i]["Acquisition"] # out_df.rows[j]["Acquisition"]

----------------------------------------------------------------------------
(* Specification SpecSurvivors: the series-level phase on records whose     *)
(* ImageType and EchoTime cells are strings, tuples, whole and fractional   *)
(* numbers and nan, against contains, tolerance, list and value constraints *)

MaxSurvivorRecords == 2

SurvivorCols == {"Acquisition", "ImageType", "EchoTime"}

SurvivorRows ==
    {[c \in SurvivorCols |->
         IF c = "Acquisition" THEN PyStr(<<"a", "1">>)
         ELSE IF c = "ImageType" THEN it ELSE et] :
       it \in {PyStr(<<"M">>), PyTuple(<<PyStr(<<"M">>), PyStr(<<"P">>)>>), PyInt(1)},
       et \in {PyInt(1), PyFloatMilli(1500), PyFloat(3), NaN, PyStr(<<"a">>)}}

SurvivorConstraints ==
    {Constraint("ImageType", PyNone, PyNone, PyStr(<<"M">>)),
     Constraint("ImageType", PyList(<<PyStr(<<"P">>), PyStr(<<"M">>)>>), PyNone, PyNone),
     Constraint("EchoTime", PyInt(1), PyFloatMilli(500), PyNone),
     Constraint("EchoTime", PyFloat(1), PyNone, PyNone),
     Constraint("SliceThickness", PyFloat(1), PyNone, PyNone)}

SurvivorFieldLists ==
    {<<c>> : c \in SurvivorConstraints}
        \cup {<<c, d>> : c, d \in SurvivorConstraints}

InitSurvivors ==
    /\ pc = "check_unmapped"
    /\ cursor = 1
    /\ \E k \in 1..MaxSurvivorRecords :
         \E rows \in [1..k -> SurvivorRows] :
            session_df = [cols |-> SurvivorCols, rows |-> rows]
    /\ \E fs \in SurvivorFieldLists :
          ref_session = <<[name |-> <<"r", "1">>, fields |-> <<>>,
                           series |-> <<[name |-> <<"S", "1">>, fields |-> fs]>>],
                          [name |-> <<"r", "2">>, fields |-> <<>>, series |-> <<>>]>>
    /\ mapping = <<<< <<"r", "1">>, <<"a", "1">> >>>>
    /\ compliance_summary = <<>>
    /\ out_df = EmptyTable
    /\ raised = FALSE
    /\ score_args = <<>>
    /\ score = 0
    /\ in_session = <<>>
    /\ schema = <<>>
    /\ wire = <<>>
    /\ ref_models = <<>>
    /\ raise_errors = FALSE
    /\ validation = <<>>
    /\ caller_before = <<>>
    /\ MenuIdle

NextSurvivors == CheckUnmapped \/ BeginMapped \/ CheckMapped \/ ReturnSummary

SpecSurvivors == InitSurvivors /\ [][NextSurvivors]_vars

\* the fields of the reference series S1 and the records of a1
SurvivorFields == ref_session[1].series[1].fields
SurvivorInput == AcquisitionRows(session_df, <<"a", "1">>)

\* the rows left by the filtering pass: every field is a column and the row
\* satisfies every constraint
SurvivingRows ==
    {i \in Idx(SurvivorInput) :
        \A k \in 1..Len(SurvivorFields) :
            /\ SurvivorFields[k].field \in SurvivorInput.cols
            /\ _row_passes_constraint(SurvivorInput.rows[i][SurvivorFields[k].field],
                                      SurvivorFields[k].value,
                                      SurvivorFields[k].tolerance,
                                      SurvivorFields[k].contains)}

SeriesRecords == SelectSeq(compliance_summary, LAMBDA r : r.series # PyNone)

\* C28: in the series-level phase, whenever the filtering pass leaves a
\* non-empty surviving subset the aggregated series record is passing; a
\* failing series record is a "series not found" or a missing-field record,
\* never the record of the any_fail branch.
C28_SurvivorsPass ==
    pc = "check_done" =>
        /\ Len(SeriesRecords) = 1
        /\ SurvivingRows # {} => SeriesRecords[1].passed
        /\ ~SeriesRecords[1].passed =>
              SeriesRecords[1].message \in
                  {"Series not found with the specified constraints.",
                   "Field not found in input for series"}
        /\ SeriesRecords[1].message # "Failed"

\* the filter removed a record and kept another under a contains or a
\* tolerance constraint; the record passes and lists the surviving values
C28_Witness ==
    /\ pc = "check_done"
    /\ SurvivingRows # {}
    /\ SurvivingRows # Idx(SurvivorInput)
    /\ \E k \in 1..Len(SurvivorFields) :
          \/ SurvivorFields[k].contains # PyNone
          \/ SurvivorFields[k].tolerance # PyNone
    /\ SeriesRecords[1].passed
    /\ SeriesRecords[1].value =
          PyList([k \in 1..Len(SurvivorFields) |->
                     PyList(UniqueValues(SelectRows(SurvivorInput, SurvivingRows),
                                         SurvivorFields[k].field))])

----------------------------------------------------------------------------
(* Specification SpecMenu: the key loop of interactive_mapping. A dict is a *)
(* function on its set of keys; in_session and ref_session hold the lists   *)
(* of input and reference keys; mapping is reference key -> input key       *)

MaxMenuSeries == 2

ReferenceKey(k) == <<"reference", "r1", k>>
InputKey(k) == <<"input", "a1", k>>

\* del d[key]
DictDel(d, key) == [k \in (DOMAIN d) \ {key} |-> d[k]]
\* d[key] = value
DictSet(d, key, value) ==
    [k \in (DOMAIN d) \cup {key} |-> IF k = key THEN value ELSE d[k]]

\* {v: k for k, v in mapping.items()}: for two keys of one value the dict
\* keeps the one that comes later
ReverseOf(m, order) ==
    LET values == {m[k] : k \in DOMAIN m}
        place(k) == CHOOSE n \in 1..Len(order) : order[n] = k
    IN  [v \in values |->
            CHOOSE k \in DOMAIN m :
                /\ m[k] = v
                /\ \A j \in DOMAIN m : m[j] = v => place(j) <= place(k)]

\* the dicts after unmapping ref_key, which is mapped
unmap_reference(m, rm, ref_key) ==
    LET old_input_key == m[ref_key]
    IN  IF old_input_key \in DOMAIN rm
        THEN [mapping |-> DictDel(m, ref_key),
              reverse_mapping |-> DictDel(rm, old_input_key), key_error |-> FALSE]
        ELSE [mapping |-> DictDel(m, ref_key),
              reverse_mapping |-> rm, key_error |-> TRUE]

\* the assignment that leaves the old input of the reference in the
\* reverse dict
assign_input_keeping_reverse(m, rm, ref_key, input_key) ==
    LET unmap_old_ref == input_key \in DOMAIN rm /\ rm[input_key] # ref_key
        m1 == IF unmap_old_ref /\ rm[input_key] \in DOMAIN m
              THEN DictDel(m, rm[input_key]) ELSE m
    IN  IF unmap_old_ref /\ rm[input_key] \notin DOMAIN m
        THEN [mapping |-> m, reverse_mapping |-> rm, key_error |-> TRUE]
        ELSE [mapping |-> DictSet(m1, ref_key, input_key),
              reverse_mapping |-> DictSet(rm, input_key, ref_key),
              key_error |-> FALSE]

\* ENTER on an input row: the old reference of the input and the old input
\* of the reference are unmapped, then both dicts get the new pair
assign_input(m, rm, ref_key, input_key) ==
    LET unmap_old_ref == input_key \in DOMAIN rm /\ rm[input_key] # ref_key
        m1 == IF unmap_old_ref /\ rm[input_key] \in DOMAIN m
              THEN DictDel(m, rm[input_key]) ELSE m
        unmap_old_input == ref_key \in DOMAIN m1 /\ m1[ref_key] # input_key
        rm1 == IF unmap_old_input /\ m1[ref_key] \in DOMAIN rm
               THEN DictDel(rm, m1[ref_key]) ELSE rm
    IN  IF unmap_old_ref /\ rm[input_key] \notin DOMAIN m
        THEN [mapping |-> m, reverse_mapping |-> rm, key_error |-> TRUE]
        ELSE IF unmap_old_input /\ m1[ref_key] \notin DOMAIN rm
        THEN [mapping |-> m1, reverse_mapping |-> rm, key_error |-> TRUE]
        ELSE [mapping |-> DictSet(m1, ref_key, input_key),
              reverse_mapping |-> DictSet(rm1, input_key, ref_key),
              key_error |-> FALSE]

\* every initial mapping over the keys, injective or not; the session lists
\* hold a prefix of the keys, so the mapping may name keys of no series
InitMenu ==
    /\ pc = "menu"
    /\ \E nr \in 0..MaxMenuSeries : ref_session = [k \in 1..nr |-> ReferenceKey(k)]
    /\ \E ni \in 0..MaxMenuSeries : in_session = [k \in 1..ni |-> InputKey(k)]
    /\ \E D \in SUBSET {ReferenceKey(k) : k \in 1..MaxMenuSeries} :
          initial_mapping \in [D -> {InputKey(k) : k \in 1..MaxMenuSeries}]
    /\ mapping = initial_mapping
    /\ reverse_mapping =
          ReverseOf(initial_mapping, [k \in 1..MaxMenuSeries |-> ReferenceKey(k)])
    /\ selected_ref_idx = 0
    /\ selected_input_idx = <<>>
    /\ session_df = EmptyTable
    /\ out_df = EmptyTable
    /\ raised = FALSE
    /\ score_args = <<>>
    /\ score = 0
    /\ compliance_summary = <<>>
    /\ cursor = 0
    /\ schema = <<>>
    /\ wire = <<>>
    /\ ref_models = <<>>
    /\ raise_errors = FALSE
    /\ validation = <<>>
    /\ caller_before = <<>>

MenuUnchanged ==
    UNCHANGED <<session_df, out_df, raised, score_args, score, in_session,
                ref_session, compliance_summary, cursor, schema, wire,
                ref_models, raise_errors, validation, caller_before,
                initial_mapping>>

\* the step of a key that changes the dicts: r is the outcome
MenuApply(r) ==
    /\ mapping' = r.mapping
    /\ reverse_mapping' = r.reverse_mapping
    /\ pc' = IF r.key_error THEN "menu_key_error" ELSE "menu"

KeyUp ==
    /\ pc = "menu"
    /\ IF selected_input_idx = <<>>
       THEN /\ selected_ref_idx' = Max(0, selected_ref_idx - 1)
            /\ UNCHANGED selected_input_idx
       ELSE /\ selected_input_idx' = <<Max(-1, selected_input_idx[1] - 1)>>
            /\ UNCHANGED selected_ref_idx
    /\ UNCHANGED <<pc, mapping, reverse_mapping>>
    /\ MenuUnchanged

KeyDown ==
    /\ pc = "menu"
    /\ IF selected_input_idx = <<>>
       THEN /\ selected_ref_idx' = Min(Len(ref_session) - 1, selected_ref_idx + 1)
            /\ UNCHANGED selected_input_idx
       ELSE /\ selected_input_idx' =
                  <<Min(Len(in_session) - 1, selected_input_idx[1] + 1)>>
            /\ UNCHANGED selected_ref_idx
    /\ UNCHANGED <<pc, mapping, reverse_mapping>>
    /\ MenuUnchanged

KeyRight ==
    /\ pc = "menu"
    /\ selected_input_idx = <<>>
    /\ selected_input_idx' = <<0>>
    /\ UNCHANGED <<pc, mapping, reverse_mapping, selected_ref_idx>>
    /\ MenuUnchanged

KeyLeft ==
    /\ pc = "menu"
    /\ selected_input_idx # <<>>
    /\ selected_input_idx' = <<>>
    /\ UNCHANGED <<pc, mapping, reverse_mapping, selected_ref_idx>>
    /\ MenuUnchanged

\* ref_keys[selected_ref_idx]: an index of -1 is the last item, and an
\* index outside the list raises IndexError
RefIndexError ==
    selected_ref_idx >= Len(ref_session) \/ selected_ref_idx < -Len(ref_session)
SelectedRefKey ==
    ref_session[IF selected_ref_idx < 0 THEN Len(ref_session) + selected_ref_idx + 1
                ELSE selected_ref_idx + 1]

KeyUnmap ==
    /\ pc = "menu"
    /\ selected_input_idx = <<>>
    /\ IF RefIndexError
       THEN pc' = "menu_index_error" /\ UNCHANGED <<mapping, reverse_mapping>>
       ELSE IF SelectedRefKey \in DOMAIN mapping
       THEN MenuApply(unmap_reference(mapping, reverse_mapping, SelectedRefKey))
       ELSE UNCHANGED <<pc, mapping, reverse_mapping>>
    /\ UNCHANGED <<selected_ref_idx, selected_input_idx>>
    /\ MenuUnchanged

KeyEnter ==
    /\ pc = "menu"
    /\ IF selected_input_idx = <<>>
       THEN /\ selected_input_idx' = <<0>>
            /\ UNCHANGED <<pc, mapping, reverse_mapping>>
       ELSE IF RefIndexError
       THEN /\ pc' = "menu_index_error"
            /\ UNCHANGED <<mapping, reverse_mapping, selected_input_idx>>
       ELSE IF selected_input_idx[1] = -1
       THEN /\ IF SelectedRefKey \in DOMAIN mapping
               THEN MenuApply(unmap_reference(mapping, reverse_mapping, SelectedRefKey))
               ELSE UNCHANGED <<pc, mapping, reverse_mapping>>
            /\ selected_input_idx' =
                  IF SelectedRefKey \in DOMAIN mapping
                     /\ unmap_reference(mapping, reverse_mapping, SelectedRefKey).key_error
                  THEN selected_input_idx ELSE <<>>
       ELSE IF selected_input_idx[1] >= Len(in_session)
       THEN /\ pc' = "menu_index_error"
            /\ UNCHANGED <<mapping, reverse_mapping, selected_input_idx>>
       ELSE /\ MenuApply(assign_input(mapping, reverse_mapping, SelectedRefKey,
                                      in_session[selected_input_idx[1] + 1]))
            /\ selected_input_idx' =
                  IF assign_input(mapping, reverse_mapping, SelectedRefKey,
                                  in_session[selected_input_idx[1] + 1]).key_error
                  THEN selected_input_idx ELSE <<>>
    /\ UNCHANGED selected_ref_idx
    /\ MenuUnchanged

KeyQuit ==
    /\ pc = "menu"
    /\ pc' = "menu_done"
    /\ UNCHANGED <<mapping, reverse_mapping, selected_ref_idx, selected_input_idx>>
    /\ MenuUnchanged

NextMenu ==
    KeyUp \/ KeyDown \/ KeyRight \/ KeyLeft \/ KeyUnmap \/ KeyEnter \/ KeyQuit

SpecMenu == InitMenu /\ [][NextMenu]_vars

Injective(m) == \A j, k \in DOMAIN m : m[j] = m[k] => j = k

ExactInverses(m, rm) ==
    /\ \A k \in DOMAIN m : m[k] \in DOMAIN rm /\ rm[m[k]] = k
    /\ \A v \in DOMAIN rm : rm[v] \in DOMAIN m /\ m[rm[v]] = v

\* C29: from an injective initial mapping, after any sequence of key events
\* mapping and reverse_mapping are exact inverses, no input series is mapped
\* to two reference series, and no key event raises a KeyError.
C29_Inverses ==
    Injective(initial_mapping) =>
        /\ ExactInverses(mapping, reverse_mapping)
        /\ Injective(mapping)
        /\ pc # "menu_key_error"

\* an input that was mapped to one reference has been assigned to another
\* reference that had another input
C29_Witness ==
    /\ Injective(initial_mapping)
    /\ pc = "menu"
    /\ \E r \in DOMAIN initial_mapping :
          /\ r \in DOMAIN mapping
          /\ mapping[r] # initial_mapping[r]
          /\ \E q \in DOMAIN initial_mapping :
                q # r /\ initial_mapping[q] = mapping[r] /\ q \notin DOMAIN mapping

----------------------------------------------------------------------------
(* Specification SpecPipeline: the check-session command with a JSON        *)
(* reference and automatic mapping: map_session, then                       *)
(* check_session_compliance on the mapping it returned                      *)

\* read_json_session: one model per reference (acquisition, series), over
\* the fields of the acquisition followed by those of the series
SeriesModels(refs) ==
    LET cols == SeriesEntries(refs)
    IN  [c \in 1..Len(cols) |->
            [key |-> EntryKey(cols[c]),
             fields |-> cols[c].acq.fields \o cols[c].series.fields]]

HasNamed(items, name) == \E k \in 1..Len(items) : items[k].name = name
Named(items, name) == items[CHOOSE k \in 1..Len(items) : items[k].name = name]

\* the records of check_dicom_compliance for a model of exact values: one
\* per model field that the values lack or that differs, in model order
check_dicom_compliance(reference_model, dicom_values, acquisition, series) ==
    LET has(f) == \E k \in 1..Len(dicom_values) : dicom_values[k].field = f
        \* a dict keeps the last value of a repeated field
        get(f) == dicom_values[CHOOSE k \in 1..Len(dicom_values) :
                                  /\ dicom_values[k].field = f
                                  /\ \A j \in (k + 1)..Len(dicom_values) :
                                        dicom_values[j].field # f].value
        fails(fdef) == ~has(fdef.field) \/ ~PyEq(get(fdef.field), fdef.value)
        failing == SelectSeq(reference_model.fields, fails)
    IN  [k \in 1..Len(failing) |->
            [Acquisition |-> acquisition, Series |-> series,
             Parameter |-> failing[k].field,
             Value |-> IF has(failing[k].field) THEN get(failing[k].field)
                       ELSE PyStr(<<"N", "/", "A">>),
             Expected |-> failing[k].value]]

\* one turn of the loop of check_session_compliance, on the names it takes
\* for the reference and for the input
series_check(ins, models, ref_name, in_name) ==
    IF ~HasNamed(ins, in_name[1])
    THEN [error |-> "TypeError", records |-> <<>>]
    ELSE IF ~\E k \in 1..Len(models) : models[k].key = ref_name
    THEN [error |-> "ValueError: No model found", records |-> <<>>]
    ELSE IF ~HasNamed(Named(ins, in_name[1]).series, in_name[2])
    THEN [error |-> "AttributeError", records |-> <<>>]
    ELSE [error |-> "",
          records |->
             check_dicom_compliance(
                 models[CHOOSE k \in 1..Len(models) : models[k].key = ref_name],
                 Named(ins, in_name[1]).fields
                     \o Named(Named(ins, in_name[1]).series, in_name[2]).fields,
                 in_name[1], in_name[2])]

\* the loop with each item of the map read as (input, reference)
RECURSIVE check_session_compliance_input_first(_, _, _)
check_session_compliance_input_first(ins, models, items) ==
    IF items = <<>> THEN [error |-> "", records |-> <<>>]
    ELSE LET first == series_check(ins, models, Head(items)[2], Head(items)[1])
             rest == check_session_compliance_input_first(ins, models, Tail(items))
         IN  IF first.error # "" THEN first
             ELSE [error |-> rest.error, records |-> first.records \o rest.records]

\* for ((ref_acq_name, ref_series_name), (in_acq_name, in_series_name)) in
\* series_map.items(): the key of an item is read as the reference and its
\* value as the input; the first exception ends the call
RECURSIVE check_session_compliance(_, _, _)
check_session_compliance(ins, models, items) ==
    IF items = <<>> THEN [error |-> "", records |-> <<>>]
    ELSE LET first == series_check(ins, models, Head(items)[1], Head(items)[2])
             rest == check_session_compliance(ins, models, Tail(items))
         IN  IF first.error # "" THEN first
             ELSE [error |-> rest.error, records |-> first.records \o rest.records]

\* series_map.items(): the items of the dict map_session built, in the
\* order of the input keys
MapItems(m, ins) ==
    LET rows == SeriesEntries(ins)
        mapped == SelectSeq([r \in 1..Len(rows) |-> EntryKey(rows[r])],
                            LAMBDA key : \E p \in m : p[1] = key)
    IN  [k \in 1..Len(mapped) |-> CHOOSE p \in m : p[1] = mapped[k]]

\* the names of a session that does not use the reference's names
InputNames ==
    [A1 |-> "B1", A2 |-> "B2", S1 |-> "T1", S2 |-> "T2", S3 |-> "T3"]

\* an input session under other names than the reference's
Renamed(session, acqs, series) ==
    [a \in 1..Len(session) |->
        [name |-> IF acqs THEN InputNames[session[a].name] ELSE session[a].name,
         fields |-> session[a].fields,
         series |-> [k \in 1..Len(session[a].series) |->
                        [name |-> IF series THEN InputNames[session[a].series[k].name]
                                  ELSE session[a].series[k].name,
                         fields |-> session[a].series[k].fields]]]]

InitPipeline ==
    /\ pc = "map_call"
    /\ \E s \in MapSessions(FALSE), acqs \in BOOLEAN, series \in BOOLEAN :
          in_session = Renamed(s, acqs, series)
    /\ \E s \in MapSessions(TRUE) :
          /\ ref_session = Renamed(s, FALSE, FALSE)
          /\ ref_models = SeriesModels(Renamed(s, FALSE, FALSE))
    /\ mapping = {}
    /\ session_df = EmptyTable
    /\ out_df = EmptyTable
    /\ raised = FALSE
    /\ score_args = <<>>
    /\ score = 0
    /\ compliance_summary = <<>>
    /\ cursor = 0
    /\ schema = <<>>
    /\ wire = <<>>
    /\ raise_errors = FALSE
    /\ validation = <<>>
    /\ caller_before = <<>>
    /\ MenuIdle

CheckSessionCompliance ==
    /\ pc = "map_done"
    /\ ~raised
    /\ LET r == check_session_compliance(in_session, ref_models,
                                         MapItems(mapping, in_session))
       IN  /\ compliance_summary' = r.records
           /\ raised' = (r.error # "")
           /\ pc' = IF r.error = "" THEN "session_checked" ELSE r.error
    /\ UNCHANGED <<session_df, out_df, score_args, score, in_session,
                   ref_session, mapping, cursor, schema, wire, ref_models,
                   raise_errors, validation, caller_before, reverse_mapping,
                   selected_ref_idx, selected_input_idx, initial_mapping>>

NextPipeline == MapSession \/ CheckSessionCompliance

SpecPipeline == InitPipeline /\ [][NextPipeline]_vars

\* C30: with automatic mapping the map of map_session is consumed in the
\* direction it was produced: every input (acquisition, series) is
\* validated against the model of the reference (acquisition, series)
\* assigned to it, and no "No model found" or other error arises for a
\* matched pair, whether or not the names of the session are the
\* reference's.
C30_MappingDirection ==
    pc \notin {"map_call", "map_done"} =>
        /\ pc = "session_checked"
        /\ compliance_summary =
              check_session_compliance_input_first(
                  in_session, ref_models, MapItems(mapping, in_session)).records

====
